---- MODULE Spec2Model ----
(***************************************************************************)
(* Streaming subsystem of the market-data gateway:                         *)
(*   - the topic event bus (services/event_bus.py) and the firehose        *)
(*     websocket sessions that subscribe to it (app/main.py),              *)
(*   - the lifecycle of the three aggregation services,                    *)
(*   - the Binance upstream websocket client,                              *)
(*   - the multiplexed multi-symbol candle endpoint,                       *)
(*   - the venue connectors' streams, HTTP clients and mappers,            *)
(*   - the aggregators' handling of venue frames, restarts and feeds,      *)
(*   - the application lifespan and the OI/Vol monitor.                    *)
(* Each component has its own specification over the shared variables.     *)
(***************************************************************************)
EXTENDS Integers, Sequences, FiniteSets, TLC

\* ------------------------------------------------------------------ bounds
\* capacity of a subscriber queue (1000 in the program, scaled down)
max_queue_size == 2
\* number of firehose websocket sessions
NumSessions == 2
\* total number of publish calls over all topics
MaxPublish == 3
\* number of distinct event attribute classes (USD value class / timeframe)
NumAttrs == 2
\* largest value of the reconnect attempt counter
MaxAttempt == 3
\* largest number of symbols in one subscribe message
MaxMsgLen == 4
\* largest number of control messages a client has sent ahead of the handler
MaxInbox == 1
\* largest price and largest quantity of a venue trade or liquidation frame
MaxPrice == 3
MaxQty == 3
\* number of venue frames the aggregators and connectors process
MaxFrames == 2

Topics == {"liquidation", "large_trade", "oi_spike"}
Sessions == 1..NumSessions
Attrs == 1..NumAttrs
\* per-connection filter levels a client asks for: the level that splits the
\* event classes, so that both the skip and the send path of a handler occur
Filters == {NumAttrs}
NoEvent == [seq |-> 0, attr |-> 0]

VARIABLES
    \* ---- event bus
    topics,        \* EventBus._topics: topic -> set of registered queues
    queues,        \* contents of the asyncio.Queue owned by each session
    published,     \* history: events published per topic, in publish order
    received,      \* history: events a running session took out of its queue
    drained,       \* history: number of items unsubscribe removed per queue
    unsubAt,       \* history: events published on the topic when it unsubscribed
    \* ---- firehose sessions
    spc,           \* position of each session handler
    sessTopic,     \* topic of the endpoint the session connected to
    sessFilter,    \* per-connection filter parameter
    sessEvent,     \* event the session is sending to its client
    endReason,     \* why the session ended
    \* ---- aggregation services
    svcRunning,    \* the service's _running event
    svcTasks,      \* the tasks the service tracks (_tasks, _task)
    tpc,           \* position of each service task
    cancelReq,     \* task.cancel() was called and not yet delivered
    stopState,     \* progress and outcome of the service's stop()
    \* ---- Binance websocket client
    ws,            \* BinanceWebSocketClient.ws: none, open or closed
    session,       \* BinanceWebSocketClient.session: none, open or closed
    wsIsRunning,   \* BinanceWebSocketClient._is_running
    wsAttempt,     \* BinanceWebSocketClient._reconnect_attempt
    lpc,           \* position of the listen() generator
    closeCalled,   \* history: close() was called directly
    \* ---- multiplexed candle endpoint (one connection)
    mpc,                 \* position of the websocket handler
    mTodo,               \* symbols of the subscribe message still to process
    subscribed_symbols,  \* the handler's subscribed_symbols set
    binance_connections, \* the handler's dict symbol -> task, in insertion order
    mIsRunning,          \* the handler's _is_running
    mIter,               \* cleanup loop: index of the next dict entry
    mIterSize,           \* cleanup loop: size of the dict when the iteration began
    mAwait,              \* cleanup loop: the task being awaited
    mOutcome,            \* how the handler ended
    mErrors,             \* history: error envelopes sent to the client
    mFirst,              \* history: the first event the handler got from the client
    mClose,              \* close code the handler sent (0: none)
    mInbox,              \* control messages the client sent after its first one
    fsym,                \* symbol of each forwarder task
    fpc,                 \* position of each forwarder task
    fcancel,             \* task.cancel() was called and not yet delivered
    \* ---- per-symbol stream endpoint (one connection)
    ppc,           \* position of the websocket_stream handler
    pExchange,     \* exchange path parameter
    pStream,       \* stream path parameter
    pClose,        \* close code the handler sent (0: none)
    pClient,       \* the downstream client: connected or gone
    uGen,          \* the upstream stream (async generator) of the session
    uConn,         \* the upstream websocket connection of that stream
    \* ---- value filters of the aggregators and of the connectors
    aggPublished,  \* history: records the aggregator loops published, by topic
    connYielded,   \* history: records the connectors' stream_large_trades yielded
    framesSeen,    \* number of venue frames processed
    \* ---- BinanceExchange.stream_liquidations (one stream)
    liqGen,        \* the generator: listening, or ended by an exception
    liqIn,         \* history: number of forceOrder frames it received
    liqOut,        \* history: the records it yielded, in order
    \* ---- venue HTTP clients (one request)
    hVenue,        \* the client whose request method runs
    hAttempt,      \* the loop variable "attempt" of its retry loop
    hpc,           \* position of the request method
    hHist,          \* history: per request made, the response and the wait after it
    \* ---- symbol and interval mappers (one argument)
    cFn,           \* the mapper that is called
    cVals,         \* the argument, then the result of each successive call
    cRaised,        \* the call ended with an exception
    \* ---- upstream feed connection (one feed)
    rKind,         \* the code that keeps the feed connected
    rpc,           \* position of its loop
    rAttempt,      \* the client's _reconnect_attempt (0 where the loop has none)
    rN,            \* history: reconnect attempts since the last successful subscription
    rWait,         \* history: seconds slept before the latest reconnect attempt
    rCause,         \* history: what ended the previous connection
    \* ---- venue tasks of one aggregator (AllLiquidationsService)
    vpc,           \* position of each venue task
    vDown,         \* the venue is unreachable for the whole run
    vPub,           \* history: number of events each venue task published
    \* ---- venue payload handling (one consumer)
    xKind,         \* the code that consumes the venue frames
    xpc,           \* position of the consumer
    xRest,         \* events of the current frame still to process
    xSeen,         \* history: number of frames received
    xValid,        \* history: number of valid events received
    xOut,          \* history: number of records published or yielded
    xTorn,          \* history: a payload made the consumer leave its connection
    \* ---- start() and stop() calls on one aggregator
    nKind,         \* the service: liq or lt
    nRunning,      \* its _running event
    nGen,          \* history: number of start() calls that created tasks
    nTasks,        \* the tasks in the list self._tasks
    nPos,          \* position of each task ever created
    nStops,         \* per stop() call in progress, the tasks it awaits
    \* ---- application shutdown (lifespan)
    dShut,          \* history: the connectors shutdown_all called, with the outcome
    \* ---- clients of the firehose sessions
    gClient,        \* the client of each session: connected or gone
    \* ---- cap check of a mid-session subscribe (one message)
    kSub,          \* subscribed_symbols when the message is handled
    kMsg,          \* the symbols list of the message
    kTodo,         \* entries of the list the subscribe loop has not handled
    kNow,          \* subscribed_symbols as the loop goes on
    kVerdict,       \* none, RATE_LIMIT or accepted
    \* ---- OI/Vol monitor (one symbol and timeframe)
    opc,           \* position of OIVolMonitor._run
    oDown,         \* the exchangeInfo endpoint is failing
    oFetchFailed,  \* history: the startup symbol fetch failed
    oSymbols,      \* the symbols the monitor tracks
    oTf,           \* the timeframe of the pair
    oVenue,        \* number of observations the venue has for the pair
    oWin,          \* the pair's rolling window, as observation timestamps
    oEvent         \* history: the latest oi_spike event published

busVars == <<topics, queues, published, received, drained, unsubAt>>
sessVars == <<spc, sessTopic, sessFilter, sessEvent, endReason>>
svcVars == <<svcRunning, svcTasks, tpc, cancelReq, stopState>>
wsVars == <<ws, session, wsIsRunning, wsAttempt, lpc, closeCalled>>
muxVars == <<mpc, mTodo, subscribed_symbols, binance_connections, mIsRunning,
             mIter, mIterSize, mAwait, mOutcome, mErrors, mFirst, mClose,
             mInbox, fsym, fpc, fcancel>>
\* the client side of the multiplex connection
muxClient == <<mFirst, mClose, mInbox>>
streamVars == <<ppc, pExchange, pStream, pClose, pClient, uGen, uConn>>
tradeVars == <<aggPublished, connYielded, framesSeen>>
liqStreamVars == <<liqGen, liqIn, liqOut>>
httpVars == <<hVenue, hAttempt, hpc, hHist>>
mapVars == <<cFn, cVals, cRaised>>
feedVars == <<rKind, rpc, rAttempt, rN, rWait, rCause>>
venueVars == <<vpc, vDown, vPub>>
payloadVars == <<xKind, xpc, xRest, xSeen, xValid, xOut, xTorn>>
restartVars == <<nKind, nRunning, nGen, nTasks, nPos, nStops>>
shutdownVars == <<dShut>>
firehoseVars == <<gClient>>
capVars == <<kSub, kMsg, kTodo, kNow, kVerdict>>
monitorVars == <<opc, oDown, oFetchFailed, oSymbols, oTf, oVenue, oWin, oEvent>>
vars == <<busVars, sessVars, svcVars, wsVars, muxVars, streamVars,
          tradeVars, liqStreamVars, httpVars, mapVars, feedVars, venueVars,
          payloadVars, restartVars, shutdownVars, firehoseVars, capVars,
          monitorVars>>

\* what each component leaves alone
notBus ==
    <<svcVars, wsVars, muxVars, streamVars, tradeVars, liqStreamVars,
      httpVars, mapVars, feedVars, venueVars, payloadVars, restartVars,
      shutdownVars, firehoseVars, capVars, monitorVars>>
notSvc ==
    <<busVars, sessVars, wsVars, muxVars, streamVars, tradeVars,
      liqStreamVars, httpVars, mapVars, feedVars, venueVars, payloadVars,
      restartVars, shutdownVars, firehoseVars, capVars, monitorVars>>
notWs ==
    <<busVars, sessVars, svcVars, muxVars, streamVars, tradeVars,
      liqStreamVars, httpVars, mapVars, feedVars, venueVars, payloadVars,
      restartVars, shutdownVars, firehoseVars, capVars, monitorVars>>
notMux ==
    <<busVars, sessVars, svcVars, wsVars, streamVars, tradeVars,
      liqStreamVars, httpVars, mapVars, feedVars, venueVars, payloadVars,
      restartVars, shutdownVars, firehoseVars, capVars, monitorVars>>
notStream ==
    <<busVars, sessVars, svcVars, wsVars, muxVars, tradeVars,
      liqStreamVars, httpVars, mapVars, feedVars, venueVars, payloadVars,
      restartVars, shutdownVars, firehoseVars, capVars, monitorVars>>
notTrades ==
    <<busVars, sessVars, svcVars, wsVars, muxVars, streamVars, httpVars,
      mapVars, feedVars, venueVars, payloadVars, restartVars,
      shutdownVars, firehoseVars, capVars, monitorVars>>
notHttp ==
    <<busVars, sessVars, svcVars, wsVars, muxVars, streamVars, tradeVars,
      liqStreamVars, mapVars, feedVars, venueVars, payloadVars,
      restartVars, shutdownVars, firehoseVars, capVars, monitorVars>>
notMappers ==
    <<busVars, sessVars, svcVars, wsVars, muxVars, streamVars, tradeVars,
      liqStreamVars, httpVars, feedVars, venueVars, payloadVars,
      restartVars, shutdownVars, firehoseVars, capVars, monitorVars>>
notFeed ==
    <<busVars, sessVars, svcVars, wsVars, muxVars, streamVars, tradeVars,
      liqStreamVars, httpVars, mapVars, venueVars, payloadVars,
      restartVars, shutdownVars, firehoseVars, capVars, monitorVars>>
notVenues ==
    <<busVars, sessVars, svcVars, wsVars, muxVars, streamVars, tradeVars,
      liqStreamVars, httpVars, mapVars, feedVars, payloadVars,
      restartVars, shutdownVars, firehoseVars, capVars, monitorVars>>
notPayload ==
    <<busVars, sessVars, svcVars, wsVars, muxVars, streamVars, tradeVars,
      liqStreamVars, httpVars, mapVars, feedVars, venueVars, restartVars,
      shutdownVars, firehoseVars, capVars, monitorVars>>
notRestart ==
    <<busVars, sessVars, svcVars, wsVars, muxVars, streamVars, tradeVars,
      liqStreamVars, httpVars, mapVars, feedVars, venueVars, payloadVars,
      shutdownVars, firehoseVars, capVars, monitorVars>>
notShutdown ==
    <<busVars, sessVars, svcVars, wsVars, muxVars, streamVars, tradeVars,
      liqStreamVars, httpVars, mapVars, feedVars, venueVars, payloadVars,
      restartVars, firehoseVars, capVars, monitorVars>>
notFirehose ==
    <<busVars, sessVars, svcVars, wsVars, muxVars, streamVars, tradeVars,
      liqStreamVars, httpVars, mapVars, feedVars, venueVars, payloadVars,
      restartVars, shutdownVars, capVars, monitorVars>>
notCap ==
    <<busVars, sessVars, svcVars, wsVars, muxVars, streamVars, tradeVars,
      liqStreamVars, httpVars, mapVars, feedVars, venueVars, payloadVars,
      restartVars, shutdownVars, firehoseVars, monitorVars>>
notMonitor ==
    <<busVars, sessVars, svcVars, wsVars, muxVars, streamVars, tradeVars,
      liqStreamVars, httpVars, mapVars, feedVars, venueVars, payloadVars,
      restartVars, shutdownVars, firehoseVars, capVars>>

\* ------------------------------------------------------------------ helpers
Range(s) == {s[i] : i \in 1..Len(s)}

RECURSIVE SumLen(_, _)
SumLen(f, S) ==
    IF S = {} THEN 0
    ELSE LET x == CHOOSE y \in S : TRUE IN Len(f[x]) + SumLen(f, S \ {x})

TotalPublished == SumLen(published, Topics)

\* ------------------------------------------------------------------ event bus
\* asyncio.Queue.put(): waits while the queue is full
PutWait(q, e) ==
    IF Len(q) >= max_queue_size
    THEN [queue |-> q, full |-> FALSE, waits |-> TRUE]
    ELSE [queue |-> Append(q, e), full |-> FALSE, waits |-> FALSE]

\* a queue without a capacity check
PutUnbounded(q, e) == [queue |-> Append(q, e), full |-> FALSE, waits |-> FALSE]

\* asyncio.Queue.put_nowait() called by publish: appends at the tail, or
\* raises QueueFull (full = TRUE) and leaves the queue alone; never waits
PutNowait(q, e) ==
    IF Len(q) >= max_queue_size
    THEN [queue |-> q, full |-> TRUE, waits |-> FALSE]
    ELSE [queue |-> Append(q, e), full |-> FALSE, waits |-> FALSE]

\* asyncio.Queue.get taking from the wrong end
GetLifo(q) == [item |-> q[Len(q)], queue |-> SubSeq(q, 1, Len(q) - 1)]

\* asyncio.Queue.get(): the item at the head and the rest of the queue
QueueGet(q) == [item |-> Head(q), queue |-> Tail(q)]

\* publish that gives up at the first full queue
PublishAllOrNone(tp, qs, t, e) ==
    IF \E q \in tp[t] : Len(qs[q]) >= max_queue_size
    THEN qs
    ELSE [q \in Sessions |-> IF q \in tp[t] THEN Append(qs[q], e) ELSE qs[q]]

\* EventBus.publish: the queues after put_nowait on every queue registered
\* under the topic; QueueFull is swallowed per queue
PublishQueues(tp, qs, t, e) ==
    [q \in Sessions |->
        IF q \in tp[t] THEN PutNowait(qs[q], e).queue ELSE qs[q]]

\* EventBus.subscribe: a new empty bounded queue is registered under the topic
SubscribeTopics(tp, t, q) == [tp EXCEPT ![t] = @ \cup {q}]

\* unsubscribe that forgets to drain
UnsubscribeNoDrain(tp, qs, t, q) ==
    IF q \in tp[t]
    THEN [topics |-> [tp EXCEPT ![t] = @ \ {q}], queues |-> qs, n |-> 0]
    ELSE [topics |-> tp, queues |-> qs, n |-> 0]

\* EventBus.unsubscribe: if the queue is registered under the topic, remove
\* it and drain it; otherwise nothing
Unsubscribe(tp, qs, t, q) ==
    IF q \in tp[t]
    THEN [topics |-> [tp EXCEPT ![t] = @ \ {q}],
          queues |-> [qs EXCEPT ![q] = <<>>],
          n |-> Len(qs[q])]
    ELSE [topics |-> tp, queues |-> qs, n |-> 0]

\* a handler that leaves without unsubscribing
SessionNoUnsubscribe(tp, qs, t, q) == [topics |-> tp, queues |-> qs, n |-> 0]

\* the unsubscribe in the finally block of a firehose handler
SessionUnsubscribe(tp, qs, t, q) == Unsubscribe(tp, qs, t, q)

\* An aggregation task publishes an event on its topic.
Publish(t, a) ==
    /\ TotalPublished < MaxPublish
    /\ LET e == [seq |-> Len(published[t]) + 1, attr |-> a] IN
        /\ \A q \in topics[t] : ~PutNowait(queues[q], e).waits
        /\ queues' = PublishQueues(topics, queues, t, e)
        /\ published' = [published EXCEPT ![t] = Append(@, e)]
    /\ UNCHANGED <<topics, received, drained, unsubAt, sessVars>>
    /\ UNCHANGED notBus

\* ------------------------------------------------------------------ firehose sessions
\* per-connection filter: min_value_usd for liquidation / large_trade,
\* the set of allowed timeframes for oi_spike
Passes(t, f, e) ==
    IF t = "oi_spike" THEN e.attr \in 1..f ELSE e.attr >= f

\* the client connects to one of the three endpoints; websocket.accept()
Accept(s, t, f) ==
    /\ spc[s] = "idle"
    /\ spc' = [spc EXCEPT ![s] = "accepting"]
    /\ sessTopic' = [sessTopic EXCEPT ![s] = t]
    /\ sessFilter' = [sessFilter EXCEPT ![s] = f]
    /\ UNCHANGED <<busVars, sessEvent, endReason>>
    /\ UNCHANGED notBus

\* accept() raises: the handler ends before it subscribed
AcceptFail(s) ==
    /\ spc[s] = "accepting"
    /\ spc' = [spc EXCEPT ![s] = "ended"]
    /\ endReason' = [endReason EXCEPT ![s] = "accept_error"]
    /\ UNCHANGED <<busVars, sessTopic, sessFilter, sessEvent>>
    /\ UNCHANGED notBus

\* queue = await bus.subscribe(topic)
Subscribe(s) ==
    /\ spc[s] = "accepting"
    /\ topics' = SubscribeTopics(topics, sessTopic[s], s)
    /\ spc' = [spc EXCEPT ![s] = "waiting"]
    /\ UNCHANGED <<queues, published, received, drained, unsubAt,
                   sessTopic, sessFilter, sessEvent, endReason>>
    /\ UNCHANGED notBus

\* event = await queue.get(); filtered events are skipped (continue)
Get(s) ==
    /\ spc[s] = "waiting"
    /\ queues[s] # <<>>
    /\ LET r == QueueGet(queues[s]) IN
        /\ queues' = [queues EXCEPT ![s] = r.queue]
        /\ received' = [received EXCEPT ![s] = Append(@, r.item)]
        /\ IF Passes(sessTopic[s], sessFilter[s], r.item)
           THEN /\ spc' = [spc EXCEPT ![s] = "sending"]
                /\ sessEvent' = [sessEvent EXCEPT ![s] = r.item]
           ELSE UNCHANGED <<spc, sessEvent>>
    /\ UNCHANGED <<topics, published, drained, unsubAt, sessTopic, sessFilter, endReason>>
    /\ UNCHANGED notBus

\* await websocket.send_json(event) succeeds
SendOk(s) ==
    /\ spc[s] = "sending"
    /\ spc' = [spc EXCEPT ![s] = "waiting"]
    /\ sessEvent' = [sessEvent EXCEPT ![s] = NoEvent]
    /\ UNCHANGED <<busVars, sessTopic, sessFilter, endReason>>
    /\ UNCHANGED notBus

\* the handler leaves its loop and runs its finally block:
\*   send_error  send_json raised (client gone or socket error), break
\*   cancelled   CancelledError at queue.get() or send_json
SessionEnd(s, reason) ==
    /\ \/ reason = "send_error" /\ spc[s] = "sending"
       \/ reason = "cancelled" /\ spc[s] \in {"waiting", "sending"}
    /\ LET u == SessionUnsubscribe(topics, queues, sessTopic[s], s) IN
        /\ topics' = u.topics
        /\ queues' = u.queues
        /\ drained' = [drained EXCEPT ![s] = u.n]
        /\ unsubAt' = [unsubAt EXCEPT ![s] = Len(published[sessTopic[s]])]
    /\ spc' = [spc EXCEPT ![s] = "ended"]
    /\ sessEvent' = [sessEvent EXCEPT ![s] = NoEvent]
    /\ endReason' = [endReason EXCEPT ![s] = reason]
    /\ received' = [received EXCEPT ![s] = <<>>]
    /\ UNCHANGED <<published, sessTopic, sessFilter>>
    /\ UNCHANGED notBus

InitBus ==
    /\ topics = [t \in Topics |-> {}]
    /\ queues = [s \in Sessions |-> <<>>]
    /\ published = [t \in Topics |-> <<>>]
    /\ received = [s \in Sessions |-> <<>>]
    /\ drained = [s \in Sessions |-> 0]
    /\ unsubAt = [s \in Sessions |-> 0]
    /\ spc = [s \in Sessions |-> "idle"]
    /\ sessTopic = [s \in Sessions |-> "liquidation"]
    /\ sessFilter = [s \in Sessions |-> NumAttrs]
    /\ sessEvent = [s \in Sessions |-> NoEvent]
    /\ endReason = [s \in Sessions |-> "none"]

NextBus ==
    \/ \E t \in Topics, a \in Attrs : Publish(t, a)
    \/ \E s \in Sessions, t \in Topics, f \in Filters : Accept(s, t, f)
    \/ \E s \in Sessions : AcceptFail(s)
    \/ \E s \in Sessions : Subscribe(s)
    \/ \E s \in Sessions : Get(s)
    \/ \E s \in Sessions : SendOk(s)
    \/ \E s \in Sessions, r \in {"send_error", "cancelled"} : SessionEnd(s, r)


\* ------------------------------------------------------------------ event bus properties
Running(s) == spc[s] \in {"waiting", "sending"}

\* r is a subsequence of p taken in the order of p (events carry their
\* position in p as seq)
IsOrderedSubseq(r, p) ==
    /\ \A i \in 1..Len(r) : r[i].seq \in 1..Len(p) /\ p[r[i].seq] = r[i]
    /\ \A i, j \in 1..Len(r) : i < j => r[i].seq < r[j].seq

\* C1: the events a subscriber has taken out of its queue form a subsequence
\* of the events published on its topic, in publish order (drops allowed,
\* reordering not).
C1_PerSubscriberFifo ==
    \A s \in Sessions : IsOrderedSubseq(received[s], published[sessTopic[s]])

\* a subscriber that was registered before the first event took two events
\* in order while a third one was dropped for it
C1_Witness ==
    \E s \in Sessions :
        /\ Running(s)
        /\ Len(received[s]) = 2
        /\ received[s][1].seq = 1
        /\ queues[s] = <<>>
        /\ Len(published[sessTopic[s]]) = 3

\* C2: a publish that finds one subscriber's queue full drops the event for
\* that subscriber only; every queue registered under the topic that has free
\* space gets the event appended.
C2_DropOnlyForFullQueue ==
    [][\A t \in Topics :
         Len(published'[t]) = Len(published[t]) + 1 =>
           \A q \in topics[t] :
             Len(queues[q]) < max_queue_size =>
               queues'[q] = Append(queues[q], published'[t][Len(published'[t])])
      ]_vars

\* one subscriber's queue is full and has missed an event that a parallel
\* subscriber of the same topic holds or has taken
C2_Witness ==
    \E s1, s2 \in Sessions :
        /\ s1 # s2
        /\ Running(s1) /\ Running(s2)
        /\ sessTopic[s1] = sessTopic[s2]
        /\ Len(queues[s1]) = max_queue_size
        /\ \E e \in Range(queues[s2]) \cup Range(received[s2]) :
              e.seq > queues[s1][Len(queues[s1])].seq

\* C3: publish never waits for a subscriber: whatever the fill level of the
\* registered queues, a publish on any topic can complete.
C3_PublishNeverBlocks ==
    TotalPublished < MaxPublish =>
        \A t \in Topics, a \in Attrs : ENABLED Publish(t, a)

\* a publish completed although a registered queue was full: the queue is
\* full and the last event of its topic is not in it
C3_Witness ==
    \E s \in Sessions :
        /\ s \in topics[sessTopic[s]]
        /\ Len(queues[s]) = max_queue_size
        /\ published[sessTopic[s]] # <<>>
        /\ published[sessTopic[s]][Len(published[sessTopic[s]])].seq
              > queues[s][Len(queues[s])].seq

\* C4: a subscriber queue never holds more than its capacity.
C4_QueueBounded ==
    \A s \in Sessions : Len(queues[s]) <= max_queue_size

\* a registered queue is at capacity while more events than its capacity
\* were published on its topic
C4_Witness ==
    \E s \in Sessions :
        /\ s \in topics[sessTopic[s]]
        /\ Len(queues[s]) = max_queue_size
        /\ Len(published[sessTopic[s]]) > max_queue_size

\* C5: once unsubscribe has returned, the queue is registered under no topic
\* and is empty, and it stays so whatever is published afterwards.
C5_UnsubscribedQueueReleased ==
    \A s \in Sessions :
        spc[s] = "ended" =>
            /\ \A t \in Topics : s \notin topics[t]
            /\ queues[s] = <<>>

\* a queue that held events when it was unsubscribed, with a publish on its
\* topic after the unsubscribe
C5_Witness ==
    \E s \in Sessions :
        /\ spc[s] = "ended"
        /\ drained[s] > 0
        /\ Len(published[sessTopic[s]]) > unsubAt[s]

DropsCounted == 0

\* the (event, subscriber) deliveries that a publish on topic t drops:
\* put_nowait raises QueueFull on these queues
DropsOf(tp, qs, t) ==
    Cardinality({q \in tp[t] : PutNowait(qs[q], NoEvent).full})

\* C20: every publish adds the number of deliveries it dropped to the drop
\* counter, so that the counter always equals the number of dropped
\* (event, subscriber) deliveries.
C20_DropsAreCounted ==
    [][\A t \in Topics :
          published'[t] # published[t] =>
              DropsCounted' = DropsCounted + DropsOf(topics, queues, t)]_vars

\* ------------------------------------------------------------------ aggregation services
Services == {"liq", "lt", "oi"}

\* the tasks start() creates, by their task names
TasksOf(svc) ==
    CASE svc = "liq" -> {"liq_binance", "liq_okx", "liq_bybit"}
      [] svc = "lt" -> {"lt_binance", "lt_bybit", "lt_hyperliquid"}
      [] svc = "oi" -> {"oi_vol_monitor"}

Tasks == UNION {TasksOf(svc) : svc \in Services}
ServiceOf(t) == CHOOSE svc \in Services : t \in TasksOf(svc)

\* a task has ended: by returning, or with CancelledError
Terminal == {"returned", "cancelled"}
Live(t) == tpc[t] \notin Terminal \cup {"none"}

\* where a loop is after its first step / when it goes round again
LoopTop(t) ==
    CASE t = "liq_bybit" -> "fetching"
      [] t = "oi_vol_monitor" -> "cycle"
      [] OTHER -> "connected"

\* while self._running.is_set(): the loop goes round or the task returns
LoopAgain(t) == IF svcRunning[ServiceOf(t)] THEN LoopTop(t) ELSE "returned"

\* where CancelledError lands, by the position of the task:
\*   created       the coroutine never runs, the task ends cancelled
\*   connected     inside try, "except CancelledError: break": returns
\*   sleep30       Bybit's retry sleep, wrapped in its own try: returns
\*   backoff       the sleep(5) inside "except Exception": propagates
\*   fetching      _fetch_bybit_symbols, outside the try: propagates
\*   startup       the monitor's sleep(0.1) and _fetch_symbols: propagates
\*   cycle         caught, then the finally block sleeps cycle_sleep
\*   cycle_sleep   the sleep in the finally block itself: propagates
\*   cancel_sleep  the same sleep, entered after a caught cancellation
AfterCancel(pos) ==
    CASE pos \in {"connected", "sleep30"} -> "returned"
      [] pos = "cycle" -> "cancel_sleep"
      [] OTHER -> "cancelled"

\* start(): no-op when running; sets _running and creates the tasks
Start(svc) ==
    /\ ~svcRunning[svc]
    /\ \A t \in TasksOf(svc) : tpc[t] = "none"
    /\ svcRunning' = [svcRunning EXCEPT ![svc] = TRUE]
    /\ svcTasks' = [svcTasks EXCEPT ![svc] = TasksOf(svc)]
    /\ tpc' = [t \in Tasks |-> IF t \in TasksOf(svc) THEN "created" ELSE tpc[t]]
    /\ UNCHANGED <<cancelReq, stopState>>
    /\ UNCHANGED notSvc

\* first step of a task
TaskStart(t) ==
    /\ tpc[t] = "created" /\ ~cancelReq[t]
    /\ tpc' = [tpc EXCEPT ![t] =
                 IF t = "oi_vol_monitor" THEN "startup" ELSE LoopAgain(t)]
    /\ UNCHANGED <<svcRunning, svcTasks, cancelReq, stopState>>
    /\ UNCHANGED notSvc

\* a venue loop without "except Exception": the exception ends the task
VenueErrorEndsTask(t) ==
    /\ tpc[t] = "connected" /\ ~cancelReq[t]
    /\ tpc' = [tpc EXCEPT ![t] = "returned"]
    /\ UNCHANGED <<svcRunning, svcTasks, cancelReq, stopState>>
    /\ UNCHANGED notSvc

\* a venue loop: the connection or a frame raises, the loop sleeps 5 s
VenueError(t) ==
    /\ tpc[t] = "connected" /\ ~cancelReq[t]
    /\ tpc' = [tpc EXCEPT ![t] = "backoff"]
    /\ UNCHANGED <<svcRunning, svcTasks, cancelReq, stopState>>
    /\ UNCHANGED notSvc

\* a sleep of a loop is over (reconnect delay, Bybit's 30 s, cycle_sleep)
SleepDone(t) ==
    /\ tpc[t] \in {"backoff", "sleep30", "cycle_sleep"} /\ ~cancelReq[t]
    /\ tpc' = [tpc EXCEPT ![t] = LoopAgain(t)]
    /\ UNCHANGED <<svcRunning, svcTasks, cancelReq, stopState>>
    /\ UNCHANGED notSvc

\* _bybit_loop: the instrument list arrives, empty or not
BybitFetched(t, empty) ==
    /\ t = "liq_bybit" /\ tpc[t] = "fetching" /\ ~cancelReq[t]
    /\ tpc' = [tpc EXCEPT ![t] = IF empty THEN "sleep30" ELSE "connected"]
    /\ UNCHANGED <<svcRunning, svcTasks, cancelReq, stopState>>
    /\ UNCHANGED notSvc

\* OIVolMonitor._run: the symbol list arrives, the first cycle starts
MonitorStarted(t) ==
    /\ t = "oi_vol_monitor" /\ tpc[t] = "startup" /\ ~cancelReq[t]
    /\ tpc' = [tpc EXCEPT ![t] = LoopAgain(t)]
    /\ UNCHANGED <<svcRunning, svcTasks, cancelReq, stopState>>
    /\ UNCHANGED notSvc

\* OIVolMonitor._run: a cycle ends (normally or by a logged exception) and
\* the finally block starts its sleep
CycleDone(t) ==
    /\ t = "oi_vol_monitor" /\ tpc[t] = "cycle" /\ ~cancelReq[t]
    /\ tpc' = [tpc EXCEPT ![t] = "cycle_sleep"]
    /\ UNCHANGED <<svcRunning, svcTasks, cancelReq, stopState>>
    /\ UNCHANGED notSvc

\* the task is resumed with CancelledError
TaskCancelled(t) ==
    /\ cancelReq[t] /\ Live(t)
    /\ tpc' = [tpc EXCEPT ![t] = AfterCancel(tpc[t])]
    /\ cancelReq' = [cancelReq EXCEPT ![t] = FALSE]
    /\ UNCHANGED <<svcRunning, svcTasks, stopState>>
    /\ UNCHANGED notSvc

\* OIVolMonitor._run: the finally block's sleep after a caught cancellation
\* is over; the pending break leaves the loop
CancelSleepDone(t) ==
    /\ tpc[t] = "cancel_sleep" /\ ~cancelReq[t]
    /\ tpc' = [tpc EXCEPT ![t] = "returned"]
    /\ UNCHANGED <<svcRunning, svcTasks, cancelReq, stopState>>
    /\ UNCHANGED notSvc

\* stop(): no-op when not running; clears _running, cancels every tracked
\* task and starts to wait for them
Stop(svc) ==
    /\ svcRunning[svc]
    /\ stopState[svc] = "none"
    /\ svcRunning' = [svcRunning EXCEPT ![svc] = FALSE]
    /\ cancelReq' = [t \in Tasks |->
                       IF t \in svcTasks[svc] /\ Live(t) THEN TRUE ELSE cancelReq[t]]
    /\ stopState' = [stopState EXCEPT ![svc] = "awaiting"]
    /\ UNCHANGED <<svcTasks, tpc>>
    /\ UNCHANGED notSvc

\* await asyncio.gather(*self._tasks, return_exceptions=True): the outcomes
\* of the tasks, CancelledError included, become results
GatherOutcome(ends) == "returned"

\* with contextlib.suppress(Exception): await self._task
\* CancelledError is not an Exception, so it leaves stop()
SuppressedAwaitOutcome(ends) ==
    IF "cancelled" \in ends THEN "raised" ELSE "returned"

\* how stop() ends once the tasks it waits for have ended
StopOutcome(svc, ends) ==
    IF svc = "oi" THEN SuppressedAwaitOutcome(ends) ELSE GatherOutcome(ends)

\* the wait in stop() is over; _tasks.clear() / _task = None run only when
\* the await returned
StopDone(svc) ==
    /\ stopState[svc] = "awaiting"
    /\ \A t \in svcTasks[svc] : tpc[t] \in Terminal
    /\ LET out == StopOutcome(svc, {tpc[t] : t \in svcTasks[svc]}) IN
        /\ stopState' = [stopState EXCEPT ![svc] = out]
        /\ svcTasks' = [svcTasks EXCEPT ![svc] = IF out = "returned" THEN {} ELSE @]
    /\ UNCHANGED <<svcRunning, tpc, cancelReq>>
    /\ UNCHANGED notSvc

InitSvc ==
    /\ svcRunning = [svc \in Services |-> FALSE]
    /\ svcTasks = [svc \in Services |-> {}]
    /\ tpc = [t \in Tasks |-> "none"]
    /\ cancelReq = [t \in Tasks |-> FALSE]
    /\ stopState = [svc \in Services |-> "none"]

NextSvc ==
    \/ \E svc \in Services : Start(svc)
    \/ \E t \in Tasks : TaskStart(t)
    \/ \E t \in Tasks : VenueError(t)
    \/ \E t \in Tasks : SleepDone(t)
    \/ \E t \in Tasks, empty \in BOOLEAN : BybitFetched(t, empty)
    \/ \E t \in Tasks : MonitorStarted(t)
    \/ \E t \in Tasks : CycleDone(t)
    \/ \E t \in Tasks : TaskCancelled(t)
    \/ \E t \in Tasks : CancelSleepDone(t)
    \/ \E svc \in Services : Stop(svc)
    \/ \E svc \in Services : StopDone(svc)

\* C7: stop() on a running service cancels every child task, returns only
\* after all of them have ended, and returns normally.
C7_StopReturnsNormally ==
    \A svc \in Services :
        /\ stopState[svc] # "raised"
        /\ stopState[svc] = "returned" =>
              \A t \in TasksOf(svc) : tpc[t] \in Terminal

\* C29: while an aggregation service is running, no exception other than
\* cancellation terminates one of its tasks: a failure is caught and the
\* task waits out a delay and resumes, so every task the service started is
\* alive for as long as the service is running.
C29_FailuresDoNotEndTasks ==
    \A svc \in Services : \A t \in TasksOf(svc) :
        (svcRunning[svc] /\ tpc[t] # "none") => Live(t)

\* all three services are running, a venue loop is in its delay after an
\* exception, the Bybit loop in its delay after an empty instrument list,
\* and the monitor has gone round its loop again after a cycle
C29_Witness ==
    /\ \A svc \in Services : svcRunning[svc]
    /\ tpc["lt_hyperliquid"] = "backoff"
    /\ tpc["liq_bybit"] = "sleep30"
    /\ tpc["liq_binance"] = "connected"
    /\ tpc["oi_vol_monitor"] = "cycle_sleep"

\* C28: every long-lived task responds to cancellation: once the
\* cancellation is delivered the task terminates, without starting another
\* sleep, fetch cycle or reconnect attempt, wherever it was waiting.
C28_CancelledTaskTerminates ==
    [][\A t \in Tasks :
          (cancelReq[t] /\ ~cancelReq'[t]) => tpc'[t] \in Terminal]_vars

\* ------------------------------------------------------------------ Binance websocket client
\* top of "while self._is_running" in listen(): the generator ends, connects
\* when there is no open websocket, or reads on
ListenTop(running, w) ==
    IF ~running THEN "stopped"
    ELSE IF w # "open" THEN "connecting" ELSE "reading"

\* "if self._is_running" after the try block: count the attempt and sleep,
\* or go back to the top of the loop (which then ends the generator)
AfterTry(running, w, n) ==
    IF running
    THEN [lpc |-> "backoff", attempt |-> n + 1]
    ELSE [lpc |-> ListenTop(running, w), attempt |-> n]

\* __aenter__: creates the session and sets _is_running
AEnter ==
    /\ session = "none"
    /\ session' = "open"
    /\ wsIsRunning' = TRUE
    /\ UNCHANGED <<ws, wsAttempt, lpc, closeCalled>>
    /\ UNCHANGED notWs

\* the consumer starts iterating listen()
ListenStart ==
    /\ lpc = "unstarted"
    /\ lpc' = ListenTop(wsIsRunning, ws)
    /\ UNCHANGED <<ws, session, wsIsRunning, wsAttempt, closeCalled>>
    /\ UNCHANGED notWs

\* connect(): session.ws_connect succeeds; the attempt counter is reset
ConnectOk ==
    /\ lpc = "connecting"
    /\ session = "open"
    /\ ws' = "open"
    /\ wsAttempt' = 0
    /\ lpc' = "reading"
    /\ UNCHANGED <<session, wsIsRunning, closeCalled>>
    /\ UNCHANGED notWs

\* connect() raises (no session, closed session, network error); listen()
\* logs it and falls through to the reconnect logic
ConnectFail ==
    /\ lpc = "connecting"
    /\ wsAttempt < MaxAttempt
    /\ LET a == AfterTry(wsIsRunning, ws, wsAttempt) IN
        /\ lpc' = a.lpc
        /\ wsAttempt' = a.attempt
    /\ UNCHANGED <<ws, session, wsIsRunning, closeCalled>>
    /\ UNCHANGED notWs

\* a TEXT frame is parsed and yielded to the consumer
RecvText ==
    /\ lpc = "reading" /\ ws = "open"
    /\ lpc' = "yielded"
    /\ UNCHANGED <<ws, session, wsIsRunning, wsAttempt, closeCalled>>
    /\ UNCHANGED notWs

\* the consumer asks for the next record
ConsumerNext ==
    /\ lpc = "yielded"
    /\ lpc' = "reading"
    /\ UNCHANGED <<ws, session, wsIsRunning, wsAttempt, closeCalled>>
    /\ UNCHANGED notWs

\* the iteration over the websocket ends: the venue closed it (CLOSED
\* frame), an ERROR frame or an exception arrived, or the websocket was closed
\* locally; then the reconnect logic runs
RecvEnd(venueClosed) ==
    /\ lpc = "reading"
    /\ wsAttempt < MaxAttempt
    /\ ws = "closed" => venueClosed
    /\ LET w == IF venueClosed THEN "closed" ELSE ws
           a == AfterTry(wsIsRunning, w, wsAttempt) IN
        /\ ws' = w
        /\ lpc' = a.lpc
        /\ wsAttempt' = a.attempt
    /\ UNCHANGED <<session, wsIsRunning, closeCalled>>
    /\ UNCHANGED notWs

\* the backoff sleep is over: back to the top of the loop
BackoffDone ==
    /\ lpc = "backoff"
    /\ lpc' = ListenTop(wsIsRunning, ws)
    /\ UNCHANGED <<ws, session, wsIsRunning, wsAttempt, closeCalled>>
    /\ UNCHANGED notWs

\* close(): closes the websocket and the session when they are open
CloseConn(c) == IF c = "open" THEN "closed" ELSE c

\* close() called on the client by another task
Close ==
    /\ session # "none"
    /\ lpc # "stopped"
    /\ ws' = CloseConn(ws)
    /\ session' = CloseConn(session)
    /\ closeCalled' = TRUE
    /\ UNCHANGED <<wsIsRunning, wsAttempt, lpc>>
    /\ UNCHANGED notWs

\* __aexit__: clears _is_running, then close()
AExit ==
    /\ session # "none"
    /\ wsIsRunning
    /\ wsIsRunning' = FALSE
    /\ ws' = CloseConn(ws)
    /\ session' = CloseConn(session)
    /\ UNCHANGED <<wsAttempt, lpc, closeCalled>>
    /\ UNCHANGED notWs

\* the task iterating listen() is cancelled while the generator waits
\* (connect, read or backoff sleep): the generator ends
ListenCancelled ==
    /\ lpc \in {"connecting", "reading", "backoff"}
    /\ lpc' = "stopped"
    /\ UNCHANGED <<ws, session, wsIsRunning, wsAttempt, closeCalled>>
    /\ UNCHANGED notWs

InitWs ==
    /\ ws = "none"
    /\ session = "none"
    /\ wsIsRunning = FALSE
    /\ wsAttempt = 0
    /\ lpc = "unstarted"
    /\ closeCalled = FALSE

NextWs ==
    \/ AEnter
    \/ ListenStart
    \/ ConnectOk
    \/ ConnectFail
    \/ RecvText
    \/ ConsumerNext
    \/ \E venueClosed \in BOOLEAN : RecvEnd(venueClosed)
    \/ BackoffDone
    \/ Close
    \/ AExit
    \/ ListenCancelled

\* C8: after close() the record sequence ends and the client makes no
\* further reconnect attempt: once close() was called, listen() does not
\* count another attempt and does not leave a backoff sleep to connect again.
C8_NoReconnectAfterClose ==
    [][closeCalled =>
         /\ wsAttempt' <= wsAttempt
         /\ ~(lpc = "backoff" /\ lpc' = "connecting")]_vars

\* ------------------------------------------------------------------ multiplexed candle endpoint
\* settings.max_symbols_per_connection: the per-connection symbol cap, a
\* configuration value (core/config.py declares no such field; the value is
\* taken as supplied by the configuration snapshot)
max_symbols_per_connection == 3

\* symbols a client may send
SymbolInputs == {"BTCUSDT", "btcusdt", "ETHUSDT", "FOO"}

\* symbol.upper()
Upper(sym) == IF sym = "btcusdt" THEN "BTCUSDT" ELSE sym

\* symbol_upper.endswith("USDT")
EndsWithUSDT(sym) == sym \in {"BTCUSDT", "ETHUSDT"}

RECURSIVE SeqsUpTo(_, _)
SeqsUpTo(S, n) ==
    IF n = 0 THEN {<<>>}
    ELSE LET shorter == SeqsUpTo(S, n - 1) IN
         shorter \cup {Append(q, x) : q \in shorter, x \in S}

\* the symbols lists of subscribe messages
SymbolLists == SeqsUpTo(SymbolInputs, MaxMsgLen)

TaskIds == 1..MaxMsgLen

\* dict operations on binance_connections (insertion ordered)
DictHas(d, k) == \E i \in 1..Len(d) : d[i].sym = k
DictSet(d, k, v) ==
    IF DictHas(d, k)
    THEN [i \in 1..Len(d) |-> IF d[i].sym = k THEN [sym |-> k, task |-> v] ELSE d[i]]
    ELSE Append(d, [sym |-> k, task |-> v])
DictDel(d, k) == SelectSeq(d, LAMBDA e : e.sym # k)

FLive(t) == fpc[t] \in {"created", "running", "failing"}

\* the handler is suspended at an await, so forwarder tasks may run
HandlerSuspended == mpc \in {"send_error", "cleanup_await", "ended"}

\* the initial subscribe loop from one await to the next: valid symbols get a
\* task (create_task, dict entry, set entry) without any check for an
\* existing subscription; the loop stops at the first invalid symbol, whose
\* error envelope is awaited, or at the end of the list
RECURSIVE InitialLoop(_, _)
InitialLoop(todo, st) ==
    IF todo = <<>> THEN [st EXCEPT !.todo = <<>>, !.invalid = "none"]
    ELSE LET sym == Upper(Head(todo)) IN
         IF ~EndsWithUSDT(sym)
         THEN [st EXCEPT !.todo = Tail(todo), !.invalid = Head(todo)]
         ELSE LET t == st.next IN
              InitialLoop(Tail(todo),
                  [st EXCEPT !.conns = DictSet(st.conns, sym, t),
                             !.subs = st.subs \cup {sym},
                             !.fsym = [st.fsym EXCEPT ![t] = sym],
                             !.fpc = [st.fpc EXCEPT ![t] = "created"],
                             !.next = t + 1])

NextTaskId == 1 + Cardinality({t \in TaskIds : fpc[t] # "none"})

\* the handler runs the initial loop over todo up to its next await. When the
\* list is exhausted it calls handle_client_messages(), whose first read of
\* _is_running raises UnboundLocalError (the name is assigned in that
\* function's finally block without a nonlocal declaration); the handler logs
\* it and enters its own finally block, where the cleanup loop starts.
RunInitialLoop(todo) ==
    LET st == InitialLoop(todo, [conns |-> binance_connections,
                                 subs |-> subscribed_symbols,
                                 fsym |-> fsym, fpc |-> fpc,
                                 next |-> NextTaskId,
                                 todo |-> todo, invalid |-> "none"]) IN
    /\ binance_connections' = st.conns
    /\ subscribed_symbols' = st.subs
    /\ fsym' = st.fsym
    /\ fpc' = st.fpc
    /\ mTodo' = st.todo
    /\ IF st.invalid # "none"
       THEN /\ mpc' = "send_error"
            /\ mErrors' = mErrors \cup {[code |-> "INVALID_SYMBOL", symbol |-> st.invalid]}
            /\ UNCHANGED <<mIsRunning, mIter, mIterSize>>
       ELSE /\ mpc' = "cleanup"
            /\ mIsRunning' = FALSE
            /\ mIter' = 1
            /\ mIterSize' = Len(st.conns)
            /\ UNCHANGED mErrors
    /\ UNCHANGED <<mAwait, mOutcome, fcancel>>

\* first client message is a subscribe within the symbol cap
InitialSubscribe(symbols) ==
    /\ mpc = "wait_initial"
    /\ Len(symbols) <= max_symbols_per_connection
    /\ RunInitialLoop(symbols)
    /\ mFirst' = [kind |-> "subscribe", symbols |-> symbols]
    /\ UNCHANGED <<mClose, mInbox>>
    /\ UNCHANGED notMux

\* what the first event was, by the way the handler leaves on it
FirstKind(why) ==
    CASE why = "RATE_LIMIT" -> "subscribe"
      [] why = "INVALID_ACTION" -> "other_action"
      [] why = "TIMEOUT" -> "timeout"
      [] why = "MALFORMED" -> "malformed"
      [] OTHER -> "disconnect"

\* the handler leaves before any task exists. A subscribe over the cap
\* (RATE_LIMIT), a JSON object with another action (INVALID_ACTION) and no
\* message within 60 s (TIMEOUT) get an error envelope and close(code=1008).
\* A first frame that is not a JSON object (MALFORMED: receive_json or
\* initial_data.get raises) and a client disconnect are caught by the outer
\* except clauses, which only log: no envelope and no close call. The finally
\* block finds no task.
InitialReject(symbols, why) ==
    /\ mpc = "wait_initial"
    /\ why = "RATE_LIMIT" => Len(symbols) > max_symbols_per_connection
    /\ why # "RATE_LIMIT" => symbols = <<>>
    /\ mErrors' = IF why \in {"DISCONNECT", "MALFORMED"} THEN mErrors
                  ELSE mErrors \cup {[code |-> why, symbol |-> "none"]}
    /\ mClose' = IF why \in {"DISCONNECT", "MALFORMED"} THEN 0 ELSE 1008
    /\ mFirst' = [kind |-> FirstKind(why), symbols |-> symbols]
    /\ mIsRunning' = FALSE
    /\ mpc' = "ended"
    /\ mOutcome' = "returned"
    /\ UNCHANGED <<mTodo, subscribed_symbols, binance_connections, mIter,
                   mIterSize, mAwait, mInbox, fsym, fpc, fcancel>>
    /\ UNCHANGED notMux

\* the INVALID_SYMBOL envelope of the initial loop was sent (or failed, which
\* send_error swallows); the loop goes on
SendErrorDone ==
    /\ mpc = "send_error"
    /\ RunInitialLoop(mTodo)
    /\ UNCHANGED muxClient
    /\ UNCHANGED notMux

\* one round of the cleanup loop "for symbol, task in
\* binance_connections.items()": the dict iterator raises RuntimeError when
\* the dict changed size since the iteration began; otherwise the next task is
\* cancelled and awaited
CleanupNext ==
    /\ \/ mpc = "cleanup"
       \/ mpc = "cleanup_await" /\ fpc[mAwait] = "done"
    /\ IF Len(binance_connections) # mIterSize
       THEN /\ mpc' = "ended"
            /\ mOutcome' = "raised"
            /\ UNCHANGED <<mIter, mAwait, fcancel>>
       ELSE IF mIter > Len(binance_connections)
       THEN /\ mpc' = "ended"
            /\ mOutcome' = "returned"
            /\ UNCHANGED <<mIter, mAwait, fcancel>>
       ELSE LET t == binance_connections[mIter].task IN
            /\ fcancel' = [fcancel EXCEPT ![t] = FLive(t)]
            /\ mAwait' = t
            /\ mIter' = mIter + 1
            /\ mpc' = "cleanup_await"
            /\ UNCHANGED mOutcome
    /\ UNCHANGED <<mTodo, subscribed_symbols, binance_connections, mIsRunning,
                   mIterSize, mErrors, fsym, fpc>>
    /\ UNCHANGED muxClient
    /\ UNCHANGED notMux

\* finally block of forward_symbol_updates: drops the dict entry of its
\* symbol (whichever task it holds) and the symbol
ForwarderFinally(t) ==
    /\ binance_connections' = DictDel(binance_connections, fsym[t])
    /\ subscribed_symbols' = subscribed_symbols \ {fsym[t]}
    /\ fpc' = [fpc EXCEPT ![t] = "done"]

\* first step of a forwarder task: opens its kline stream
FwdStart(t) ==
    /\ HandlerSuspended
    /\ fpc[t] = "created" /\ ~fcancel[t]
    /\ fpc' = [fpc EXCEPT ![t] = "running"]
    /\ UNCHANGED <<mpc, mTodo, subscribed_symbols, binance_connections, mIsRunning,
                   mIter, mIterSize, mAwait, mOutcome, mErrors, fsym, fcancel>>
    /\ UNCHANGED muxClient
    /\ UNCHANGED notMux

\* the forwarder leaves its loop: a send to the client failed, or a frame
\* arrived while _is_running is false
FwdLeave(t) ==
    /\ HandlerSuspended
    /\ fpc[t] = "running" /\ ~fcancel[t]
    /\ ForwarderFinally(t)
    /\ UNCHANGED <<mpc, mTodo, mIsRunning, mIter, mIterSize, mAwait, mOutcome,
                   mErrors, fsym, fcancel>>
    /\ UNCHANGED muxClient
    /\ UNCHANGED notMux

\* the forwarder catches an exception; while _is_running it first sends a
\* SUBSCRIPTION_FAILED envelope
FwdFail(t) ==
    /\ HandlerSuspended
    /\ fpc[t] = "running" /\ ~fcancel[t]
    /\ IF mIsRunning
       THEN /\ fpc' = [fpc EXCEPT ![t] = "failing"]
            /\ mErrors' = mErrors \cup {[code |-> "SUBSCRIPTION_FAILED", symbol |-> fsym[t]]}
            /\ UNCHANGED <<subscribed_symbols, binance_connections>>
       ELSE /\ ForwarderFinally(t)
            /\ UNCHANGED mErrors
    /\ UNCHANGED <<mpc, mTodo, mIsRunning, mIter, mIterSize, mAwait, mOutcome,
                   fsym, fcancel>>
    /\ UNCHANGED muxClient
    /\ UNCHANGED notMux

\* the SUBSCRIPTION_FAILED envelope was sent; the finally block runs
FwdFailSent(t) ==
    /\ HandlerSuspended
    /\ fpc[t] = "failing" /\ ~fcancel[t]
    /\ ForwarderFinally(t)
    /\ UNCHANGED <<mpc, mTodo, mIsRunning, mIter, mIterSize, mAwait, mOutcome,
                   mErrors, fsym, fcancel>>
    /\ UNCHANGED muxClient
    /\ UNCHANGED notMux

\* the forwarder is resumed with CancelledError: a task that never ran ends
\* without entering its try block; a running one runs its finally block
FwdCancelled(t) ==
    /\ HandlerSuspended
    /\ fcancel[t] /\ FLive(t)
    /\ IF fpc[t] = "created"
       THEN /\ fpc' = [fpc EXCEPT ![t] = "done"]
            /\ UNCHANGED <<subscribed_symbols, binance_connections>>
       ELSE ForwarderFinally(t)
    /\ fcancel' = [fcancel EXCEPT ![t] = FALSE]
    /\ UNCHANGED <<mpc, mTodo, mIsRunning, mIter, mIterSize, mAwait, mOutcome,
                   mErrors, fsym>>
    /\ UNCHANGED muxClient
    /\ UNCHANGED notMux

\* a symbols list over the cap whatever is subscribed already
OverCapList == [i \in 1..(max_symbols_per_connection + 1) |-> "ETHUSDT"]

\* control messages a client sends after its first message
ControlMessages ==
    {[action |-> a, symbols |-> l] :
        a \in {"subscribe", "unsubscribe"},
        l \in {<<"BTCUSDT">>, <<"FOO">>, OverCapList}}

\* the client sends a control message on the open connection. The only place
\* that would read it is the receive_json of handle_client_messages, which is
\* never reached (the function raises on its first line), so the message
\* stays unread.
ClientSend(msg) ==
    /\ mpc \notin {"wait_initial", "ended"}
    /\ Len(mInbox) < MaxInbox
    /\ mInbox' = Append(mInbox, msg)
    /\ UNCHANGED <<mpc, mTodo, subscribed_symbols, binance_connections,
                   mIsRunning, mIter, mIterSize, mAwait, mOutcome, mErrors,
                   mFirst, mClose, fsym, fpc, fcancel>>
    /\ UNCHANGED notMux

InitMux ==
    /\ mpc = "wait_initial"
    /\ mTodo = <<>>
    /\ subscribed_symbols = {}
    /\ binance_connections = <<>>
    /\ mIsRunning = TRUE
    /\ mIter = 0
    /\ mIterSize = 0
    /\ mAwait = 0
    /\ mOutcome = "none"
    /\ mErrors = {}
    /\ mFirst = [kind |-> "none", symbols |-> <<>>]
    /\ mClose = 0
    /\ mInbox = <<>>
    /\ fsym = [t \in TaskIds |-> "none"]
    /\ fpc = [t \in TaskIds |-> "none"]
    /\ fcancel = [t \in TaskIds |-> FALSE]

NextMux ==
    \/ \E symbols \in SymbolLists : InitialSubscribe(symbols)
    \/ \E symbols \in SymbolLists,
          why \in {"RATE_LIMIT", "INVALID_ACTION", "TIMEOUT", "DISCONNECT",
                   "MALFORMED"} :
             InitialReject(symbols, why)
    \/ \E msg \in ControlMessages : ClientSend(msg)
    \/ SendErrorDone
    \/ CleanupNext
    \/ \E t \in TaskIds : FwdStart(t)
    \/ \E t \in TaskIds : FwdLeave(t)
    \/ \E t \in TaskIds : FwdFail(t)
    \/ \E t \in TaskIds : FwdFailSent(t)
    \/ \E t \in TaskIds : FwdCancelled(t)

C11_UnsubscribeCancelsOnlyItsTask ==
    \A i \in 1..Len(mInbox) :
        mInbox[i].action = "unsubscribe" =>
            /\ mpc # "ended"
            /\ \A t \in TaskIds :
                  (FLive(t) /\ fsym[t] \notin {Upper(x) : x \in Range(mInbox[i].symbols)})
                      => ~fcancel[t]

\* the initial subscribe listed distinct valid symbols within the cap
DistinctValid(symbols) ==
    /\ Len(symbols) <= max_symbols_per_connection
    /\ \A i \in 1..Len(symbols) : EndsWithUSDT(Upper(symbols[i]))
    /\ \A i, j \in 1..Len(symbols) : Upper(symbols[i]) = Upper(symbols[j]) => i = j

\* C12: after an initial subscribe listing k distinct valid symbols within the
\* cap, the candle stream of every listed symbol is running: no forwarder
\* task of the subscription is cancelled before it has opened its stream, and
\* the session flag the forwarders consult stays set while they forward.
C12_InitialSubscribeStartsStreams ==
    (mFirst.kind = "subscribe" /\ DistinctValid(mFirst.symbols)) =>
        \A t \in TaskIds :
            /\ ~(fpc[t] = "created" /\ fcancel[t])
            /\ fpc[t] = "running" => mIsRunning

\* C13: no forwarder task exists unless the first client message was a
\* subscribe; when the first message was not a subscribe action, or none came
\* within 60 s, the handler has closed the connection with code 1008.
C13_FirstMessageMustBeSubscribe ==
    /\ mFirst.kind # "subscribe" => \A t \in TaskIds : fpc[t] = "none"
    /\ (mpc = "ended" /\ mFirst.kind \in {"other_action", "malformed", "timeout"})
          => mClose = 1008

\* C14: a mid-session subscribe over the symbol cap is answered with a
\* RATE_LIMIT envelope: the session does not end with such a message sent and
\* no RATE_LIMIT envelope returned.
C14_MidSessionOverCapAnswered ==
    mpc = "ended" =>
        \A i \in 1..Len(mInbox) :
            (/\ mInbox[i].action = "subscribe"
             /\ Len(mInbox[i].symbols) > max_symbols_per_connection)
                => \E e \in mErrors : e.code = "RATE_LIMIT"

\* the subscribe messages the client sent within the cap
SubscribesSent ==
    (IF mFirst.kind = "subscribe" /\ Len(mFirst.symbols) <= max_symbols_per_connection
     THEN {mFirst.symbols} ELSE {})
    \cup {mInbox[i].symbols : i \in {j \in 1..Len(mInbox) :
               /\ mInbox[j].action = "subscribe"
               /\ Len(mInbox[j].symbols) <= max_symbols_per_connection}}

\* C15: every entry of a subscribe message whose symbol does not end in USDT
\* got an INVALID_SYMBOL envelope naming it and no task, whether the message
\* was the initial one or a later one.
C15_InvalidSymbolAnswered ==
    mpc = "ended" =>
        \A l \in SubscribesSent : \A i \in 1..Len(l) :
            ~EndsWithUSDT(Upper(l[i])) =>
                /\ [code |-> "INVALID_SYMBOL", symbol |-> l[i]] \in mErrors
                /\ \A t \in TaskIds : fsym[t] # Upper(l[i])

\* ------------------------------------------------------------------ per-symbol stream endpoint
\* ExchangeManager.exchanges: the registered connectors
Exchanges == {"binance", "hyperliquid", "bybit"}

\* exchange and stream path parameters a client may use
ExchangeInputs == Exchanges \cup {"Binance", "okx"}
StreamInputs == {"ohlc", "liquidations", "large_trades", "trades"}

\* name.lower() in ExchangeManager.get_exchange
LowerName(name) == IF name = "Binance" THEN "binance" ELSE name

\* the keys of websocket_stream's stream_methods
StreamMethods == {"ohlc", "liquidations", "large_trades"}

\* the features each connector's capabilities dict maps to True
capabilities ==
    [binance |-> {"ohlc", "funding_rate", "open_interest", "liquidations", "large_trades"},
     bybit |-> {"ohlc", "funding_rate", "open_interest", "liquidations", "large_trades"},
     hyperliquid |-> {"ohlc", "funding_rate", "open_interest", "large_trades"}]

\* ExchangeInterface.supports: capabilities.get(feature, False)
Supports(ex, feature) == feature \in capabilities[ex]

\* stream.replace("_", "")
StripUnderscore(stream) ==
    IF stream = "large_trades" THEN "largetrades" ELSE stream

\* a capability check that lets every stream through
SkipCapabilityCheck(ex, stream) == FALSE

\* the capability check of websocket_stream: the stream is refused when
\* neither its name without underscores nor its name is a supported feature
Rejected(ex, stream) ==
    /\ ~Supports(ex, StripUnderscore(stream))
    /\ ~Supports(ex, stream)

\* whether the connector's stream closes its upstream connection when the
\* generator is closed: Binance streams run inside "async with" on the
\* websocket client; the Bybit and Hyperliquid clients keep the connection
\* in a local variable and have no close call
ClosesOnExit(ex) == ex = "binance"

\* the handler resolves exchange and stream and refuses: unknown exchange
\* (ValueError), a stream that is no key of stream_methods, or an unsupported
\* capability; each closes with code 1008 and returns
ResolveReject(exchange, stream) ==
    /\ ppc = "accepted"
    /\ \/ LowerName(exchange) \notin Exchanges
       \/ LowerName(exchange) \in Exchanges /\ stream \notin StreamMethods
       \/ LowerName(exchange) \in Exchanges /\ Rejected(LowerName(exchange), stream)
    /\ pExchange' = exchange
    /\ pStream' = stream
    /\ pClose' = 1008
    /\ ppc' = "ended"
    /\ UNCHANGED <<pClient, uGen, uConn>>
    /\ UNCHANGED notStream

\* the checks pass: the handler calls the stream method and waits for the
\* first record of its generator, which starts to connect
StartStream(exchange, stream) ==
    /\ ppc = "accepted"
    /\ LowerName(exchange) \in Exchanges
    /\ stream \in StreamMethods
    /\ ~Rejected(LowerName(exchange), stream)
    /\ pExchange' = exchange
    /\ pStream' = stream
    /\ ppc' = "waiting"
    /\ uGen' = "connecting"
    /\ UNCHANGED <<pClose, pClient, uConn>>
    /\ UNCHANGED notStream

\* the upstream client connects (again) and subscribes
UpConnect ==
    /\ uGen = "connecting"
    /\ uConn' = "open"
    /\ uGen' = "listening"
    /\ UNCHANGED <<ppc, pExchange, pStream, pClose, pClient>>
    /\ UNCHANGED notStream

\* the venue delivers a frame that becomes a record: the generator yields it
\* and the handler goes on to send it
VenueRecord ==
    /\ ppc = "waiting"
    /\ uGen = "listening" /\ uConn = "open"
    /\ uGen' = "yielded"
    /\ ppc' = "sending"
    /\ UNCHANGED <<pExchange, pStream, pClose, pClient, uConn>>
    /\ UNCHANGED notStream

\* the venue closes the upstream connection; a stream still listening
\* reconnects
VenueClose ==
    /\ uConn = "open"
    /\ uGen \in {"listening", "closed"}
    /\ uConn' = "closed"
    /\ uGen' = IF uGen = "listening" THEN "connecting" ELSE uGen
    /\ UNCHANGED <<ppc, pExchange, pStream, pClose, pClient>>
    /\ UNCHANGED notStream

\* the client goes away; the handler never reads from the websocket, so it
\* learns of it only from a failing send
ClientDisconnect ==
    /\ ppc \in {"waiting", "sending"}
    /\ pClient = "connected"
    /\ pClient' = "gone"
    /\ UNCHANGED <<ppc, pExchange, pStream, pClose, uGen, uConn>>
    /\ UNCHANGED notStream

\* send_json succeeds; the handler asks the generator for the next record
StreamSendOk ==
    /\ ppc = "sending"
    /\ pClient = "connected"
    /\ ppc' = "waiting"
    /\ uGen' = "listening"
    /\ UNCHANGED <<pExchange, pStream, pClose, pClient, uConn>>
    /\ UNCHANGED notStream

\* send_json raises: the handler breaks out of the loop and returns; the
\* generator it drops is closed at its yield, which closes the upstream
\* connection only where the connector's stream does so on exit
StreamSendFail ==
    /\ ppc = "sending"
    /\ pClient = "gone"
    /\ ppc' = "ended"
    /\ uGen' = "closed"
    /\ uConn' = IF ClosesOnExit(LowerName(pExchange)) THEN "closed" ELSE uConn
    /\ UNCHANGED <<pExchange, pStream, pClose, pClient>>
    /\ UNCHANGED notStream

InitStream ==
    /\ ppc = "accepted"
    /\ pExchange = "none"
    /\ pStream = "none"
    /\ pClose = 0
    /\ pClient = "connected"
    /\ uGen = "none"
    /\ uConn = "none"

\* the steps the program takes by itself, without the venue or the client
StreamProgramStep ==
    \/ UpConnect
    \/ StreamSendOk
    \/ StreamSendFail

NextStream ==
    \/ \E exchange \in ExchangeInputs, stream \in StreamInputs :
          ResolveReject(exchange, stream)
    \/ \E exchange \in ExchangeInputs, stream \in StreamInputs :
          StartStream(exchange, stream)
    \/ UpConnect
    \/ VenueRecord
    \/ VenueClose
    \/ ClientDisconnect
    \/ StreamSendOk
    \/ StreamSendFail

\* C16: when the exchange is unknown or does not support the requested stream
\* capability, the handler has closed with code 1008 and no upstream stream
\* or connection was started.
C16_UnsupportedClosedWithPolicy ==
    (/\ ppc # "accepted"
     /\ \/ LowerName(pExchange) \notin Exchanges
        \/ ~Supports(LowerName(pExchange), pStream))
        => /\ pClose = 1008
           /\ ppc = "ended"
           /\ uGen = "none"
           /\ uConn = "none"

\* the session asked Hyperliquid, which has no liquidation feed, for
\* liquidations and was closed
C16_Witness ==
    /\ ppc = "ended"
    /\ pExchange = "hyperliquid"
    /\ pStream = "liquidations"
    /\ pClose = 1008

\* C17: once the client is gone (or a send has failed), the upstream
\* connection opened for the session is released: as long as it is open, the
\* program has a step of its own to take towards ending the session and
\* closing it, whether or not the venue delivers another record.
C17_SessionEndReleasesUpstream ==
    (pClient = "gone" /\ uConn = "open") => ENABLED StreamProgramStep

\* ------------------------------------------------------------------ value filters
\* AllLiquidationsService._min_value_usd (5000 by default, scaled down)
min_value_usd == 3
\* settings.large_trade_threshold_usd (50000 by default, scaled down)
large_trade_threshold_usd == 4

Prices == 0..MaxPrice
Qtys == 0..MaxQty

\* str.lower() on the side strings the venues send
LowerSide(raw) ==
    CASE raw \in {"BUY", "Buy", "buy"} -> "buy"
      [] raw \in {"SELL", "Sell", "sell"} -> "sell"
      [] raw = "B" -> "b"
      [] raw = "A" -> "a"
      [] OTHER -> raw

\* the side field of Liquidation and LargeTrade: Literal["buy", "sell"]
ValidSide(side) == side \in {"buy", "sell"}

\* a filter that lets every record through
NeverBelow(value, threshold) == FALSE

\* "if value < threshold: continue"
BelowThreshold(value, threshold) == value < threshold

\* a liquidation loop handles one order of a frame: value = price * qty, the
\* order is skipped below the service threshold, a side that is not buy or
\* sell becomes sell, and the record is published on "liquidation"
LiquidationFrame(venue, rawSide, price, qty) ==
    LET value == price * qty
        side == IF ValidSide(LowerSide(rawSide)) THEN LowerSide(rawSide) ELSE "sell" IN
    /\ framesSeen < MaxFrames
    /\ framesSeen' = framesSeen + 1
    /\ aggPublished' =
          IF BelowThreshold(value, min_value_usd) THEN aggPublished
          ELSE aggPublished \cup {[topic |-> "liquidation", exchange |-> venue,
                                   side |-> side, value |-> value]}
    /\ UNCHANGED <<connYielded, liqStreamVars>>

\* AllLiquidationsService._binance_loop
LiqBinance(rawSide, price, qty) ==
    /\ LiquidationFrame("binance", rawSide, price, qty)
    /\ UNCHANGED notTrades
\* AllLiquidationsService._okx_loop
LiqOkx(rawSide, price, qty) ==
    /\ LiquidationFrame("okx", rawSide, price, qty)
    /\ UNCHANGED notTrades
\* AllLiquidationsService._bybit_loop
LiqBybit(rawSide, price, qty) ==
    /\ LiquidationFrame("bybit", rawSide, price, qty)
    /\ UNCHANGED notTrades

\* a large-trade loop handles one trade: value = price * qty, the trade is
\* skipped below the threshold; building the LargeTrade model fails on a side
\* that is not buy or sell, and the loop's "except Exception: continue" then
\* skips the trade; otherwise it is published on "large_trade"
LargeTradeFrame(venue, side, price, qty) ==
    LET value == price * qty IN
    /\ framesSeen < MaxFrames
    /\ framesSeen' = framesSeen + 1
    /\ aggPublished' =
          IF BelowThreshold(value, large_trade_threshold_usd) \/ ~ValidSide(side)
          THEN aggPublished
          ELSE aggPublished \cup {[topic |-> "large_trade", exchange |-> venue,
                                   side |-> side, value |-> value]}
    /\ UNCHANGED <<connYielded, liqStreamVars>>

\* AllLargeTradesService._binance_symbol_loop: side from the m flag
LtBinance(m, price, qty) ==
    /\ LargeTradeFrame("binance", IF m THEN "sell" ELSE "buy", price, qty)
    /\ UNCHANGED notTrades
\* AllLargeTradesService._bybit_loop: side = str(S).lower()
LtBybit(rawSide, price, qty) ==
    /\ LargeTradeFrame("bybit", LowerSide(rawSide), price, qty)
    /\ UNCHANGED notTrades
\* AllLargeTradesService._hyperliquid_loop: side = str(side).lower()
LtHyperliquid(rawSide, price, qty) ==
    /\ LargeTradeFrame("hyperliquid", LowerSide(rawSide), price, qty)
    /\ UNCHANGED notTrades

\* a connector's stream_large_trades handles one trade; keep tells whether
\* the trade is yielded
ConnectorTrade(ex, side, price, qty, keep) ==
    /\ framesSeen < MaxFrames
    /\ framesSeen' = framesSeen + 1
    /\ connYielded' =
          IF keep
          THEN connYielded \cup {[exchange |-> ex, side |-> side, value |-> price * qty]}
          ELSE connYielded
    /\ UNCHANGED <<aggPublished, liqStreamVars>>

\* BinanceExchange.stream_large_trades: filters in the connector
BinanceStreamLargeTrades(m, price, qty) ==
    /\ ConnectorTrade("binance", IF m THEN "sell" ELSE "buy", price, qty,
                      ~BelowThreshold(price * qty, large_trade_threshold_usd))
    /\ UNCHANGED notTrades

\* BybitExchange.stream_large_trades: filters what BybitWSClient.stream_trades
\* yields
BybitStreamLargeTrades(rawSide, price, qty) ==
    /\ ConnectorTrade("bybit", LowerSide(rawSide), price, qty,
                      ~BelowThreshold(price * qty, large_trade_threshold_usd))
    /\ UNCHANGED notTrades

\* HyperliquidExchange.stream_large_trades: yields every trade that
\* HyperliquidWSClient.stream_trades yields, whose side is buy for "B" and
\* sell otherwise
HyperliquidStreamLargeTrades(rawSide, price, qty) ==
    /\ ConnectorTrade("hyperliquid", IF rawSide = "B" THEN "buy" ELSE "sell",
                      price, qty, TRUE)
    /\ UNCHANGED notTrades

\* the fields a Liquidation must be given: exchange, symbol and timestamp of
\* BaseMarketModel, and side, price, quantity and value, all declared Field(...)
LiquidationRequired ==
    {"exchange", "symbol", "timestamp", "side", "price", "quantity", "value"}

\* the keyword arguments stream_liquidations passes to Liquidation(...)
StreamLiquidationsKwargs ==
    {"exchange", "symbol", "side", "price", "quantity", "timestamp"}

\* pydantic validation of Liquidation(**kwargs): every required field is
\* given, side is one of the two literals, the numbers are not negative
LiquidationValidates(kwargs, side, price, qty) ==
    /\ LiquidationRequired \subseteq kwargs
    /\ ValidSide(side)
    /\ price >= 0 /\ qty >= 0

\* BinanceExchange.stream_liquidations: one frame from listen(); a frame of
\* another event type is skipped, a forceOrder frame is normalised and
\* yielded, a validation error leaves the generator
BinanceStreamLiquidations(e, rawSide, price, qty) ==
    /\ liqGen = "listening"
    /\ framesSeen < MaxFrames
    /\ framesSeen' = framesSeen + 1
    /\ IF e # "forceOrder"
       THEN UNCHANGED liqStreamVars
       ELSE /\ liqIn' = liqIn + 1
            /\ IF LiquidationValidates(StreamLiquidationsKwargs,
                                       LowerSide(rawSide), price, qty)
               THEN /\ liqOut' = Append(liqOut, [side |-> LowerSide(rawSide),
                                                 price |-> price, quantity |-> qty])
                    /\ UNCHANGED liqGen
               ELSE /\ liqGen' = "raised"
                    /\ UNCHANGED liqOut
    /\ UNCHANGED <<aggPublished, connYielded>>
    /\ UNCHANGED notTrades

InitTrades ==
    /\ aggPublished = {}
    /\ connYielded = {}
    /\ framesSeen = 0
    /\ liqGen = "listening"
    /\ liqIn = 0
    /\ liqOut = <<>>

NextTrades ==
    \/ \E rawSide \in {"BUY", "SELL"}, price \in Prices, qty \in Qtys :
          LiqBinance(rawSide, price, qty)
    \/ \E rawSide \in {"buy", "sell"}, price \in Prices, qty \in Qtys :
          LiqOkx(rawSide, price, qty)
    \/ \E rawSide \in {"Buy", "Sell"}, price \in Prices, qty \in Qtys :
          LiqBybit(rawSide, price, qty)
    \/ \E m \in BOOLEAN, price \in Prices, qty \in Qtys : LtBinance(m, price, qty)
    \/ \E rawSide \in {"Buy", "Sell"}, price \in Prices, qty \in Qtys :
          LtBybit(rawSide, price, qty)
    \/ \E rawSide \in {"B", "A"}, price \in Prices, qty \in Qtys :
          LtHyperliquid(rawSide, price, qty)
    \/ \E m \in BOOLEAN, price \in Prices, qty \in Qtys :
          BinanceStreamLargeTrades(m, price, qty)
    \/ \E rawSide \in {"Buy", "Sell"}, price \in Prices, qty \in Qtys :
          BybitStreamLargeTrades(rawSide, price, qty)
    \/ \E rawSide \in {"B", "A"}, price \in Prices, qty \in Qtys :
          HyperliquidStreamLargeTrades(rawSide, price, qty)
    \/ \E e \in {"forceOrder", "aggTrade"}, rawSide \in {"BUY", "SELL"},
          price \in Prices, qty \in Qtys :
          BinanceStreamLiquidations(e, rawSide, price, qty)

\* the threshold of the service that publishes on a topic
ServiceThreshold(topic) ==
    IF topic = "liquidation" THEN min_value_usd ELSE large_trade_threshold_usd

\* C18: every record published on the liquidation or large_trade topic has a
\* value at or above the threshold of the service that published it.
C18_PublishedAtOrAboveThreshold ==
    \A r \in aggPublished : r.value >= ServiceThreshold(r.topic)

\* both services have published a record whose value is exactly their
\* threshold
C18_Witness ==
    /\ \E r \in aggPublished : r.topic = "liquidation" /\ r.value = min_value_usd
    /\ \E r \in aggPublished :
          r.topic = "large_trade" /\ r.value = large_trade_threshold_usd

\* C19: every record a connector's stream_large_trades yields has a value at
\* or above the configured large-trade threshold, for every exchange.
C19_YieldedAtOrAboveThreshold ==
    \A r \in connYielded : r.value >= large_trade_threshold_usd

\* the is_buyer_maker field of the record the Hyperliquid loop builds:
\* "is_buyer_maker=False" whatever the raw side is
HyperliquidLoopIsBuyerMaker(rawSide) == FALSE

\* C32: for every Hyperliquid trade whose value is at or above the threshold
\* the large-trades aggregator publishes a large_trade record with side buy
\* for raw side "B" and sell for raw side "A", and with is_buyer_maker true
\* exactly for raw side "A".
C32_HyperliquidTradePublished ==
    [][\A rawSide \in {"B", "A"}, price \in Prices, qty \in Qtys :
          (/\ LtHyperliquid(rawSide, price, qty)
           /\ price * qty >= large_trade_threshold_usd)
              => /\ [topic |-> "large_trade", exchange |-> "hyperliquid",
                     side |-> IF rawSide = "B" THEN "buy" ELSE "sell",
                     value |-> price * qty] \in aggPublished'
                 /\ HyperliquidLoopIsBuyerMaker(rawSide) = (rawSide = "A")]_vars

\* C21: BinanceExchange.stream_liquidations yields exactly one valid
\* Liquidation record for every forceOrder frame it receives, and nothing
\* for frames of any other event type.
C21_OneRecordPerForceOrder ==
    /\ liqGen = "listening"
    /\ Len(liqOut) = liqIn

\* ------------------------------------------------------------------ venue HTTP clients
\* bound of every retry loop: "for attempt in range(3)", "max_retries = 3"
MaxHttpAttempts == 3

Venues == {"binance", "hyperliquid", "bybit"}

\* the responses a request can get: an HTTP status, or no response at all
\* (TimeoutError or any other exception of the transport)
HttpStatuses == {200, 429, 418, 503, 500}
NoResponse == 0
HttpOutcomes == HttpStatuses \cup {NoResponse}

\* the statuses each client's "elif resp.status in (...)" branch retries
RetriedStatuses(venue) ==
    CASE venue = "binance" -> {429, 418, 503}
      [] venue = "hyperliquid" -> {429, 503}
      [] OTHER -> {}

RECURSIVE Pow2(_)
Pow2(n) == IF n = 0 THEN 1 ELSE 2 * Pow2(n - 1)

\* the sleeps of the retry loops, in tenths of a second:
\* "delay = 1.5 * (attempt + 1)" after a retried status
RateLimitDelay(attempt) == 15 * (attempt + 1)
\* "await asyncio.sleep(1.0 * (attempt + 1))" after an exception
ExceptionDelay(attempt) == 10 * (attempt + 1)
\* Bybit's "wait_time = 2 ** attempt"
BybitDelay(attempt) == 10 * Pow2(attempt)

\* a caller invokes the request method of a venue's client
HttpRequest(venue) ==
    /\ hpc = "idle"
    /\ hVenue' = venue
    /\ hAttempt' = 0
    /\ hpc' = "requesting"
    /\ UNCHANGED hHist
    /\ UNCHANGED notHttp

\* one pass of the body of BinanceAPIClient._get / HyperliquidAPIClient._post:
\* 200 returns the body, a retried status sleeps and continues, any other
\* status breaks out of the loop, an exception sleeps
RetryLoopPass(out) ==
    /\ hpc = "requesting"
    /\ LET wait == CASE out = 200 -> 0
                     [] out \in RetriedStatuses(hVenue) -> RateLimitDelay(hAttempt)
                     [] out = NoResponse -> ExceptionDelay(hAttempt)
                     [] OTHER -> 0 IN
        /\ hHist' = Append(hHist, [status |-> out, wait |-> wait])
        /\ hpc' = CASE out = 200 -> "returned"
                    [] wait > 0 -> "sleeping"
                    [] OTHER -> "raised"
    /\ UNCHANGED <<hVenue, hAttempt>>
    /\ UNCHANGED notHttp

\* BinanceAPIClient._get
BinanceGet(out) ==
    /\ hVenue = "binance"
    /\ RetryLoopPass(out)

\* HyperliquidAPIClient._post
HyperliquidPost(out) ==
    /\ hVenue = "hyperliquid"
    /\ RetryLoopPass(out)

\* BybitAPIClient._get: a 200 whose retCode is 0 returns the result; anything
\* else is an exception, re-raised on the last attempt and slept on otherwise
BybitGet(out, retCode) ==
    /\ hVenue = "bybit"
    /\ hpc = "requesting"
    /\ LET ok == out = 200 /\ retCode = 0
           last == hAttempt = MaxHttpAttempts - 1
           wait == IF ok \/ last THEN 0 ELSE BybitDelay(hAttempt) IN
        /\ hHist' = Append(hHist, [status |-> out, wait |-> wait])
        /\ hpc' = CASE ok -> "returned"
                    [] last -> "raised"
                    [] OTHER -> "sleeping"
    /\ UNCHANGED <<hVenue, hAttempt>>
    /\ UNCHANGED notHttp

\* the sleep is over: the loop takes its next value of attempt, or is
\* exhausted and the method raises
HttpSleepDone ==
    /\ hpc = "sleeping"
    /\ hAttempt' = hAttempt + 1
    /\ hpc' = IF hAttempt + 1 < MaxHttpAttempts THEN "requesting" ELSE "raised"
    /\ UNCHANGED <<hVenue, hHist>>
    /\ UNCHANGED notHttp

InitHttp ==
    /\ hVenue = "none"
    /\ hAttempt = 0
    /\ hpc = "idle"
    /\ hHist = <<>>

NextHttp ==
    \/ \E venue \in Venues : HttpRequest(venue)
    \/ \E out \in HttpOutcomes : BinanceGet(out)
    \/ \E out \in HttpOutcomes : HyperliquidPost(out)
    \/ \E out \in HttpOutcomes, retCode \in {0, 1} : BybitGet(out, retCode)
    \/ HttpSleepDone

\* C22: each venue's HTTP client retries a request on 429, 418 or 503,
\* waits 1.5 s * (attempt + 1) before the next attempt, makes at most 3
\* attempts, returns at the first 200 response, and fails once the 3
\* attempts are exhausted.
C22_RetryOnRateLimit ==
    /\ Len(hHist) <= MaxHttpAttempts
    /\ \A i \in 1..Len(hHist) :
          /\ hHist[i].status = 200 => hpc = "returned"
          /\ hHist[i].status \in {429, 418, 503} =>
                /\ hHist[i].wait = 15 * i
                /\ hpc = "raised" => Len(hHist) = MaxHttpAttempts

\* ------------------------------------------------------------------ symbol and interval mappers
\* strings are sequences of one-character strings, so that endswith, slicing
\* and upper() are computed

\* number of parts an argument is composed of
MaxChunks == 2

Lowercase == <<"a", "b", "c", "d", "e", "f", "g", "h", "i", "j", "k", "l", "m",
               "n", "o", "p", "q", "r", "s", "t", "u", "v", "w", "x", "y", "z">>
Uppercase == <<"A", "B", "C", "D", "E", "F", "G", "H", "I", "J", "K", "L", "M",
               "N", "O", "P", "Q", "R", "S", "T", "U", "V", "W", "X", "Y", "Z">>

\* str.upper()
UpperStr(s) ==
    [i \in 1..Len(s) |->
        IF \E k \in 1..26 : Lowercase[k] = s[i]
        THEN Uppercase[CHOOSE k \in 1..26 : Lowercase[k] = s[i]]
        ELSE s[i]]

\* s.endswith(suf)
EndsWith(s, suf) ==
    /\ Len(s) >= Len(suf)
    /\ SubSeq(s, Len(s) - Len(suf) + 1, Len(s)) = suf

\* s[:-n] for n >= 1
DropLast(s, n) == SubSeq(s, 1, Len(s) - n)

\* the suffix list of the four mappers, in the order the loops try them
QuoteSuffixes ==
    << <<"U", "S", "D", "T">>, <<"U", "S", "D", "C">>, <<"B", "U", "S", "D">>,
       <<"D", "A", "I">>, <<"T", "U", "S", "D">>, <<"U", "S", "D", "P">> >>

\* _extract_coin_symbol: the set single_coins
single_coins ==
    {<<"1", "I", "N", "C", "H">>, <<"A", "A", "V", "E">>, <<"A", "D", "A">>,
     <<"A", "D", "X">>, <<"A", "E">>, <<"A", "L", "G", "O">>,
     <<"A", "P", "E">>, <<"A", "P", "P", "C">>, <<"A", "R", "D", "R">>,
     <<"A", "R", "K">>, <<"A", "T", "O", "M">>, <<"A", "V", "A", "X">>,
     <<"A", "X", "S">>, <<"B", "A", "T">>, <<"B", "C", "H">>,
     <<"B", "C", "P", "T">>, <<"B", "L", "Z">>, <<"B", "N", "B">>,
     <<"B", "N", "T">>, <<"B", "T", "C">>, <<"C", "H", "A", "T">>,
     <<"C", "H", "Z">>, <<"C", "M", "T">>, <<"C", "O", "M", "P">>,
     <<"C", "R", "V">>, <<"D", "A", "S", "H">>, <<"D", "G", "B">>,
     <<"D", "N", "T">>, <<"D", "O", "G", "E">>, <<"D", "O", "T">>,
     <<"E", "N", "J">>, <<"E", "O", "S">>, <<"E", "T", "C">>,
     <<"E", "T", "H">>, <<"F", "I", "L">>, <<"F", "T", "M">>,
     <<"F", "U", "E", "L">>, <<"F", "U", "N">>, <<"G", "A", "S">>,
     <<"G", "R", "T">>, <<"G", "T", "O">>, <<"H", "O", "T">>,
     <<"I", "C", "N">>, <<"I", "C", "P">>, <<"I", "C", "X">>,
     <<"I", "N", "S">>, <<"I", "O", "S", "T">>, <<"I", "O", "T", "A">>,
     <<"K", "N", "C">>, <<"L", "E", "N", "D">>, <<"L", "I", "N", "K">>,
     <<"L", "R", "C">>, <<"L", "S", "K">>, <<"L", "T", "C">>,
     <<"M", "A", "N", "A">>, <<"M", "A", "T", "I", "C">>, <<"M", "C", "O">>,
     <<"M", "K", "R">>, <<"N", "A", "N", "O">>, <<"N", "A", "V">>,
     <<"N", "C", "A", "S", "H">>, <<"N", "E", "A", "R">>,
     <<"N", "E", "B", "L">>, <<"N", "E", "O">>, <<"O", "M", "G">>,
     <<"O", "N", "T">>, <<"P", "I", "V", "X">>, <<"P", "O", "A">>,
     <<"P", "O", "W", "R">>, <<"Q", "K", "C">>, <<"Q", "T", "U", "M">>,
     <<"R", "E", "P">>, <<"R", "E", "Q">>, <<"R", "L", "C">>,
     <<"R", "P", "X">>, <<"R", "V", "N">>, <<"S", "A", "N", "D">>,
     <<"S", "C">>, <<"S", "H", "I", "B">>, <<"S", "N", "X">>,
     <<"S", "O", "L">>, <<"S", "T", "E", "E", "M">>,
     <<"S", "T", "O", "R", "J">>, <<"S", "T", "R", "A", "T">>,
     <<"S", "T", "X">>, <<"S", "U", "S", "H", "I">>, <<"T", "N", "T">>,
     <<"T", "R", "I", "G">>, <<"T", "R", "X">>, <<"U", "N", "I">>,
     <<"V", "E", "N">>, <<"V", "E", "T">>, <<"V", "I", "A">>,
     <<"V", "I", "B">>, <<"W", "A", "V", "E", "S">>, <<"W", "T", "C">>,
     <<"X", "E", "M">>, <<"X", "L", "M">>, <<"X", "M", "R">>,
     <<"X", "R", "P">>, <<"Y", "F", "I">>, <<"Z", "E", "C">>,
     <<"Z", "I", "L">>, <<"Z", "R", "X">>}

\* _extract_coin_symbol: the dict pair_to_coin; its keys are the coins of
\* single_coins followed by USDT, each mapped to that coin
PairToCoinKeys == {c \o <<"U", "S", "D", "T">> : c \in single_coins}
pair_to_coin(sym) == DropLast(sym, 4)

\* "for suffix in [...]: if symbol.endswith(suffix): ..." of
\* _extract_coin_symbol from the k-th suffix on: a stripped coin is returned
\* only when it is in single_coins, otherwise the loop goes on and the
\* symbol is returned as it is
RECURSIVE ExtractLoop(_, _)
ExtractLoop(sym, k) ==
    IF k > Len(QuoteSuffixes) THEN sym
    ELSE IF /\ EndsWith(sym, QuoteSuffixes[k])
            /\ DropLast(sym, Len(QuoteSuffixes[k])) \in single_coins
         THEN DropLast(sym, Len(QuoteSuffixes[k]))
         ELSE ExtractLoop(sym, k + 1)

\* HyperliquidWSClient._extract_coin_symbol, HyperliquidAPIClient._extract_coin_symbol
extract_coin_symbol(symbol) ==
    LET sym == UpperStr(symbol) IN
    IF sym \in PairToCoinKeys THEN pair_to_coin(sym)
    ELSE IF sym \in single_coins THEN sym
    ELSE ExtractLoop(sym, 1)

\* the loop of _to_hyperliquid_coin and _to_hl_coin from the k-th suffix on:
\* the first suffix the symbol ends with is cut off
RECURSIVE StripLoop(_, _)
StripLoop(sym, k) ==
    IF k > Len(QuoteSuffixes) THEN sym
    ELSE IF EndsWith(sym, QuoteSuffixes[k])
         THEN DropLast(sym, Len(QuoteSuffixes[k]))
         ELSE StripLoop(sym, k + 1)

\* main._to_hyperliquid_coin
to_hyperliquid_coin(symbol) == StripLoop(UpperStr(symbol), 1)

\* AllLargeTradesService._to_hl_coin
to_hl_coin(symbol) == StripLoop(UpperStr(symbol), 1)

\* the parts symbol arguments are composed of
SymbolChunks ==
    {<<"B", "T", "C">>, <<"E", "T", "H">>, <<"F", "O", "O">>, <<"b", "t", "c">>,
     <<"W", "E", "I", "R", "D">>, <<"u", "s", "d", "t">>} \cup Range(QuoteSuffixes)

RECURSIVE Compose(_, _)
Compose(chunks, n) ==
    IF n = 1 THEN chunks
    ELSE LET shorter == Compose(chunks, n - 1) IN
         shorter \cup {a \o b : a \in shorter, b \in chunks}

\* the symbols the mappers are called with
SymbolStrings == Compose(SymbolChunks, MaxChunks)

SymbolMappers == {"extract_coin_symbol", "to_hyperliquid_coin", "to_hl_coin"}

\* one more call of the mapper, on the value the last call returned
MapperCall(fn, result) ==
    /\ cFn = fn
    /\ Len(cVals) \in 1..2
    /\ cVals' = Append(cVals, result)
    /\ UNCHANGED <<cFn, cRaised>>

ExtractCoinSymbol ==
    /\ MapperCall("extract_coin_symbol", extract_coin_symbol(cVals[Len(cVals)]))
    /\ UNCHANGED notMappers

ToHyperliquidCoin ==
    /\ MapperCall("to_hyperliquid_coin", to_hyperliquid_coin(cVals[Len(cVals)]))
    /\ UNCHANGED notMappers

ToHlCoin ==
    /\ MapperCall("to_hl_coin", to_hl_coin(cVals[Len(cVals)]))
    /\ UNCHANGED notMappers

\* no mapper call is in progress
InitMappers ==
    /\ cFn = "none"
    /\ cVals = <<>>
    /\ cRaised = FALSE

\* the conversion as stated: the first recognized quote suffix the symbol
\* ends with is cut off when a coin remains in front of it, any other
\* symbol is kept
RECURSIVE ToCoinStated(_, _)
ToCoinStated(sym, k) ==
    IF k > Len(QuoteSuffixes) THEN sym
    ELSE IF EndsWith(sym, QuoteSuffixes[k]) /\ Len(sym) > Len(QuoteSuffixes[k])
         THEN DropLast(sym, Len(QuoteSuffixes[k]))
         ELSE ToCoinStated(sym, k + 1)

\* C23: the symbol-to-coin mapper strips a recognized quote suffix from
\* every pair symbol, whether or not the remaining coin is one it knows,
\* and returns every other symbol unchanged (FOOUSDC -> FOO, WEIRD -> WEIRD).
\* Stated for arguments already in upper case.
C23_QuoteSuffixStripped ==
    (/\ cFn = "extract_coin_symbol"
     /\ Len(cVals) >= 2
     /\ cVals[1] = UpperStr(cVals[1]))
        => cVals[2] = ToCoinStated(cVals[1], 1)

\* C24: symbol-to-coin conversion is idempotent for every input string:
\* converting the result of a conversion again returns it unchanged.
C24_ToCoinIdempotent ==
    (cFn \in {"to_hyperliquid_coin", "to_hl_coin"} /\ Len(cVals) = 3)
        => cVals[3] = cVals[2]

\* ---- Bybit interval mapper
Digits == <<"0", "1", "2", "3", "4", "5", "6", "7", "8", "9">>

IsDigit(c) == \E k \in 1..10 : Digits[k] = c
DigitVal(c) == (CHOOSE k \in 1..10 : Digits[k] = c) - 1

\* int(s) accepts s: here, a non-empty string of decimal digits
IsInt(s) == Len(s) >= 1 /\ \A i \in 1..Len(s) : IsDigit(s[i])

\* int(s) for such a string
RECURSIVE ParseInt(_)
ParseInt(s) ==
    IF Len(s) = 0 THEN 0
    ELSE 10 * ParseInt(SubSeq(s, 1, Len(s) - 1)) + DigitVal(s[Len(s)])

\* str(n) for n >= 0
RECURSIVE ToStr(_)
ToStr(n) ==
    IF n < 10 THEN <<Digits[n + 1]>>
    ELSE ToStr(n \div 10) \o <<Digits[(n % 10) + 1]>>

\* BybitWSClient._convert_interval_to_bybit and
\* BybitAPIClient._convert_interval_to_bybit (the same text): the result, or
\* the ValueError of int() on a prefix that is no number
convert_interval_to_bybit(interval) ==
    LET body == DropLast(interval, 1)
        n == ParseInt(body)
        ret(v) == [raised |-> FALSE, value |-> v]
        ValueError == [raised |-> TRUE, value |-> <<>>] IN
    IF EndsWith(interval, <<"m">>) THEN
        IF ~IsInt(body) THEN ValueError
        ELSE IF n \in {1, 3, 5, 15, 30} THEN ret(ToStr(n))
        ELSE ret(<<"1">>)
    ELSE IF EndsWith(interval, <<"h">>) THEN
        IF ~IsInt(body) THEN ValueError
        ELSE CASE n = 1 -> ret(<<"6", "0">>)
               [] n = 2 -> ret(<<"1", "2", "0">>)
               [] n = 4 -> ret(<<"2", "4", "0">>)
               [] n = 6 -> ret(<<"3", "6", "0">>)
               [] n = 12 -> ret(<<"7", "2", "0">>)
               [] OTHER -> ret(<<"6", "0">>)
    ELSE IF EndsWith(interval, <<"d">>) THEN
        IF ~IsInt(body) THEN ValueError
        ELSE CASE n = 1 -> ret(<<"D">>)
               [] n = 7 -> ret(<<"W">>)
               [] n = 30 -> ret(<<"M">>)
               [] OTHER -> ret(<<"D">>)
    ELSE ret(<<"1">>)

\* the interval tokens the mapper is called with: a count and a unit
IntervalCounts ==
    {<<>>, <<"1">>, <<"2">>, <<"3">>, <<"4">>, <<"5">>, <<"6">>, <<"7">>,
     <<"8">>, <<"1", "2">>, <<"1", "5">>, <<"3", "0">>, <<"x">>}
IntervalUnits == {<<>>, <<"m">>, <<"h">>, <<"d">>, <<"w">>, <<"M">>, <<"s">>}
IntervalStrings == {c \o u : c \in IntervalCounts, u \in IntervalUnits}

\* one call of the interval mapper
ConvertIntervalToBybit ==
    /\ cFn = "convert_interval_to_bybit"
    /\ Len(cVals) = 1 /\ ~cRaised
    /\ LET r == convert_interval_to_bybit(cVals[1]) IN
        /\ cRaised' = r.raised
        /\ cVals' = IF r.raised THEN cVals ELSE Append(cVals, r.value)
    /\ UNCHANGED cFn
    /\ UNCHANGED notMappers

\* a call of a mapper is about to be made with an argument of its domain
InitMappersDrawn ==
    /\ \/ cFn \in SymbolMappers /\ cVals \in {<<x>> : x \in SymbolStrings}
       \/ cFn = "convert_interval_to_bybit" /\ cVals \in {<<x>> : x \in IntervalStrings}
    /\ cRaised = FALSE

NextMappers ==
    \/ ExtractCoinSymbol
    \/ ToHyperliquidCoin
    \/ ToHlCoin
    \/ ConvertIntervalToBybit

\* the canonical intervals and the Bybit code of the same duration
BybitCodes ==
    << <<(<<"1", "m">>), (<<"1">>)>>,
       <<(<<"3", "m">>), (<<"3">>)>>,
       <<(<<"5", "m">>), (<<"5">>)>>,
       <<(<<"1", "5", "m">>), (<<"1", "5">>)>>,
       <<(<<"3", "0", "m">>), (<<"3", "0">>)>>,
       <<(<<"1", "h">>), (<<"6", "0">>)>>,
       <<(<<"2", "h">>), (<<"1", "2", "0">>)>>,
       <<(<<"4", "h">>), (<<"2", "4", "0">>)>>,
       <<(<<"6", "h">>), (<<"3", "6", "0">>)>>,
       <<(<<"1", "2", "h">>), (<<"7", "2", "0">>)>>,
       <<(<<"1", "d">>), (<<"D">>)>>,
       <<(<<"1", "w">>), (<<"W">>)>>,
       <<(<<"1", "M">>), (<<"M">>)>> >>

CanonicalIntervals == {BybitCodes[k][1] : k \in 1..Len(BybitCodes)}
BybitCodeOf(i) == BybitCodes[CHOOSE k \in 1..Len(BybitCodes) : BybitCodes[k][1] = i][2]

\* C25: the Bybit interval mapper is total and maps every canonical interval
\* to the Bybit code of the same duration, 1w and 1M included; only tokens
\* outside the canonical set give the 1m default, and no input makes it raise.
C25_IntervalMapperTotal ==
    cFn = "convert_interval_to_bybit" =>
        /\ ~cRaised
        /\ Len(cVals) = 2 =>
              cVals[2] = IF cVals[1] \in CanonicalIntervals
                         THEN BybitCodeOf(cVals[1]) ELSE <<"1">>

\* ------------------------------------------------------------------ upstream feed reconnection
\* consecutive reconnect attempts followed
MaxReconnects == 6

\* max_reconnect_delay of the three websocket clients (default argument)
max_reconnect_delay == 30

\* "await asyncio.sleep(5)" of the aggregator loops
AggregatorDelay == 5

\* the loops that keep an upstream feed connected
FeedKinds == {"binance_listen", "hyperliquid_stream", "bybit_stream", "aggregator_loop"}

Min(a, b) == IF a <= b THEN a ELSE b

\* the feed is requested: the loop makes its first connection attempt
FeedOpen(kind) ==
    /\ rpc = "idle"
    /\ rKind' = kind
    /\ rpc' = "connecting"
    /\ UNCHANGED <<rAttempt, rN, rWait, rCause>>
    /\ UNCHANGED notFeed

\* the connection is made and the subscription sent: connect() and
\* _connect_and_subscribe set _reconnect_attempt to 0
FeedSubscribed ==
    /\ rpc = "connecting"
    /\ rpc' = "streaming"
    /\ rAttempt' = 0
    /\ rN' = 0
    /\ rWait' = 0
    /\ rCause' = "none"
    /\ UNCHANGED rKind
    /\ UNCHANGED notFeed

\* the connection is made and the subscription sent, and the venue answers
\* with a refusal (the Binance streams are named in the URL and send no
\* subscription).  The answer is a frame without the fields of a data
\* frame and is passed over like an acknowledgement, so the loop goes on
\* exactly as after an accepted subscription
FeedRejected ==
    /\ rpc = "connecting"
    /\ rKind \in {"hyperliquid_stream", "bybit_stream", "aggregator_loop"}
    /\ rpc' = "streaming"
    /\ rAttempt' = 0
    /\ rN' = 0
    /\ rWait' = 0
    /\ rCause' = "rejected"
    /\ UNCHANGED rKind
    /\ UNCHANGED notFeed

\* the code after the try block of listen() and of the Hyperliquid streams:
\* the counter is incremented, then the delay is computed from it
BackoffAfterIncrement ==
    /\ rAttempt' = rAttempt + 1
    /\ rWait' = Min(Pow2(rAttempt + 1 - 1), max_reconnect_delay)
    /\ rpc' = "sleeping"

\* "except Exception" of the Bybit streams: the delay is computed from the
\* counter, which is incremented after the sleep
BackoffBeforeIncrement ==
    /\ rWait' = Min(Pow2(rAttempt), max_reconnect_delay)
    /\ rAttempt' = rAttempt + 1
    /\ rpc' = "sleeping"

\* "except Exception" of the aggregator loops: a fixed sleep, no counter
BackoffFixed ==
    /\ rWait' = AggregatorDelay
    /\ rpc' = "sleeping"
    /\ UNCHANGED rAttempt

\* the loop goes round without sleeping
ReconnectAtOnce ==
    /\ rWait' = 0
    /\ rpc' = "connecting"
    /\ UNCHANGED rAttempt

\* the connection attempt or the open connection raises an exception
\* (refused, timeout, abnormal close)
FeedFailed ==
    /\ rpc \in {"connecting", "streaming"}
    /\ rN < MaxReconnects
    /\ rN' = rN + 1
    /\ rCause' = "error"
    /\ CASE rKind \in {"binance_listen", "hyperliquid_stream"} -> BackoffAfterIncrement
         [] rKind = "bybit_stream" -> BackoffBeforeIncrement
         [] OTHER -> BackoffFixed
    /\ UNCHANGED rKind
    /\ UNCHANGED notFeed

\* the venue closes the connection cleanly: the "async for" over the
\* connection ends without an exception. listen() and the Hyperliquid
\* streams fall through to the backoff code; the Bybit streams and the
\* aggregator loops are back at the top of their while loop
FeedClosedCleanly ==
    /\ rpc = "streaming"
    /\ rN < MaxReconnects
    /\ rN' = rN + 1
    /\ rCause' = "clean"
    /\ CASE rKind \in {"binance_listen", "hyperliquid_stream"} -> BackoffAfterIncrement
         [] OTHER -> ReconnectAtOnce
    /\ UNCHANGED rKind
    /\ UNCHANGED notFeed

\* the backoff sleep is over, the loop connects again
FeedSleepDone ==
    /\ rpc = "sleeping"
    /\ rpc' = "connecting"
    /\ UNCHANGED <<rKind, rAttempt, rN, rWait, rCause>>
    /\ UNCHANGED notFeed

\* the task that runs the loop is cancelled. CancelledError raised inside
\* the try block is caught by "except asyncio.CancelledError: break" in
\* listen(), the Hyperliquid streams and the aggregator loops, and the loop
\* returns; the Bybit streams have no such clause, and every backoff sleep
\* is outside the try block, so there the error propagates
FeedCancelled ==
    /\ rpc \in {"connecting", "streaming", "sleeping"}
    /\ rpc' = IF rpc = "sleeping" \/ rKind = "bybit_stream"
              THEN "cancelled" ELSE "returned"
    /\ UNCHANGED <<rKind, rAttempt, rN, rWait, rCause>>
    /\ UNCHANGED notFeed

InitFeed ==
    /\ rKind = "none"
    /\ rpc = "idle"
    /\ rAttempt = 0
    /\ rN = 0
    /\ rWait = 0
    /\ rCause = "none"

NextFeed ==
    \/ \E kind \in FeedKinds : FeedOpen(kind)
    \/ FeedSubscribed
    \/ FeedRejected
    \/ FeedFailed
    \/ FeedClosedCleanly
    \/ FeedSleepDone
    \/ FeedCancelled

\* C26: for every upstream feed connection the wait before the n-th
\* consecutive reconnect attempt is min(2^(n-1), max_backoff) seconds, and
\* the attempt counter is back at zero only after a successful subscription.
C26_ExponentialBackoff ==
    /\ rN >= 1 => rWait = Min(Pow2(rN - 1), max_reconnect_delay)
    /\ rKind # "aggregator_loop" => rAttempt = rN

\* C27: when the venue closes an upstream connection cleanly while the
\* stream is still requested, the client sleeps the backoff delay before it
\* connects again; it never reconnects immediately.
C27_CleanCloseBacksOff ==
    rCause = "clean" => rWait > 0

\* the status the code keeps for a feed.  No loop, client or service has a
\* status attribute; a refusal or a failure only produces a log line
FeedStatus == "none"

\* the number N of reconnects after which a failing task counts as degraded
DegradedAfter == 5

\* C40: a feed whose subscription the venue rejected, or whose task has
\* been failing for more than N reconnects, is marked DEGRADED, and its
\* retries are then spaced max_backoff apart
C40_DegradedFeedMarked ==
    (rCause = "rejected" \/ rN > DegradedAfter) =>
        /\ FeedStatus = "DEGRADED"
        /\ rpc = "sleeping" => rWait = max_reconnect_delay

\* ------------------------------------------------------------------ venue tasks of one aggregator
\* the tasks AllLiquidationsService.start() creates
VenueTasks == TasksOf("liq")

\* top of the venue's while loop: the Bybit loop first fetches its
\* instrument list, the others connect
VenueLoopTop(v) == IF v = "liq_bybit" THEN "fetching" ELSE "connecting"

\* start(): one asyncio.create_task per venue loop. Which venues are
\* unreachable is a fact of the environment
VenuesStart(down) ==
    /\ \A v \in VenueTasks : vpc[v] = "none"
    /\ vpc' = [v \in VenueTasks |-> "created"]
    /\ vDown' = [v \in VenueTasks |-> v \in down]
    /\ UNCHANGED vPub
    /\ UNCHANGED notVenues

\* start() awaiting the venue loops one after the other: a loop would start
\* only when the loops before it have returned, which a running loop never does
VenueTaskStartInTurn(v) ==
    /\ vpc[v] = "created"
    /\ \A u \in VenueTasks : vpc[u] = "created"
    /\ v = "liq_binance"
    /\ vpc' = [vpc EXCEPT ![v] = VenueLoopTop(v)]
    /\ UNCHANGED <<vDown, vPub>>
    /\ UNCHANGED notVenues

\* the event loop runs the first step of a created task
VenueTaskStart(v) ==
    /\ vpc[v] = "created"
    /\ vpc' = [vpc EXCEPT ![v] = VenueLoopTop(v)]
    /\ UNCHANGED <<vDown, vPub>>
    /\ UNCHANGED notVenues

\* _fetch_bybit_symbols returns: an empty list (any failure is turned into
\* one) sends the loop into its 30 s sleep
VenueFetched(v, empty) ==
    /\ vpc[v] = "fetching"
    /\ vDown[v] => empty
    /\ vpc' = [vpc EXCEPT ![v] = IF empty THEN "sleep30" ELSE "connecting"]
    /\ UNCHANGED <<vDown, vPub>>
    /\ UNCHANGED notVenues

\* websockets.connect and the subscription succeed
VenueConnected(v) ==
    /\ vpc[v] = "connecting"
    /\ ~vDown[v]
    /\ vpc' = [vpc EXCEPT ![v] = "connected"]
    /\ UNCHANGED <<vDown, vPub>>
    /\ UNCHANGED notVenues

\* the connection attempt or the open connection raises: except Exception
\* logs it and sleeps 5 s
VenueFailed(v) ==
    /\ vpc[v] \in {"connecting", "connected"}
    /\ vpc' = [vpc EXCEPT ![v] = "backoff"]
    /\ UNCHANGED <<vDown, vPub>>
    /\ UNCHANGED notVenues

\* a sleep of the loop is over, the loop goes round
VenueSleepDone(v) ==
    /\ vpc[v] \in {"backoff", "sleep30"}
    /\ vpc' = [vpc EXCEPT ![v] = VenueLoopTop(v)]
    /\ UNCHANGED <<vDown, vPub>>
    /\ UNCHANGED notVenues

\* a frame at or above the threshold arrives and is published; publish
\* puts without waiting, so the loop stays where it is
VenuePublish(v) ==
    /\ vpc[v] = "connected"
    /\ vPub[v] < MaxFrames
    /\ vPub' = [vPub EXCEPT ![v] = @ + 1]
    /\ UNCHANGED <<vpc, vDown>>
    /\ UNCHANGED notVenues

InitVenues ==
    /\ vpc = [v \in VenueTasks |-> "none"]
    /\ vDown = [v \in VenueTasks |-> FALSE]
    /\ vPub = [v \in VenueTasks |-> 0]

NextVenues ==
    \/ \E down \in SUBSET VenueTasks : VenuesStart(down)
    \/ \E v \in VenueTasks : VenueTaskStart(v)
    \/ \E v \in VenueTasks, empty \in BOOLEAN : VenueFetched(v, empty)
    \/ \E v \in VenueTasks : VenueConnected(v)
    \/ \E v \in VenueTasks : VenueFailed(v)
    \/ \E v \in VenueTasks : VenueSleepDone(v)
    \/ \E v \in VenueTasks : VenuePublish(v)

\* C30: a persistent failure of one venue's task never stops or blocks the
\* other venues' tasks of the same aggregator: while some venue is
\* unreachable, every task of a reachable venue can take its next step
\* (start, fetch, connect, publish, wake up) whatever the failing task does.
C30_VenueTasksIndependent ==
    \A v \in VenueTasks :
        ((\E u \in VenueTasks \ {v} : vDown[u]) /\ ~vDown[v]) =>
            /\ vpc[v] = "created" => ENABLED VenueTaskStart(v)
            /\ vpc[v] = "fetching" => ENABLED VenueFetched(v, FALSE)
            /\ vpc[v] = "connecting" => ENABLED VenueConnected(v)
            /\ (vpc[v] = "connected" /\ vPub[v] < MaxFrames) => ENABLED VenuePublish(v)
            /\ vpc[v] \in {"backoff", "sleep30"} => ENABLED VenueSleepDone(v)

\* Binance is unreachable and its task is in the delay after a failed
\* attempt, while the OKX and Bybit tasks have published
C30_Witness ==
    /\ vDown["liq_binance"] /\ vpc["liq_binance"] = "backoff"
    /\ vPub["liq_okx"] = MaxFrames
    /\ vPub["liq_bybit"] = MaxFrames

\* ------------------------------------------------------------------ venue payload handling
\* the consumers of venue frames: the all-market liquidation loop of the
\* aggregator and the candle stream of the Binance connector
PayloadConsumers == {"_binance_loop", "stream_ohlc"}
\* one event of a frame: well formed, of another event kind, without its
\* data fields, or with a price that is no number
PayloadKinds == {"valid", "unexpected", "missing", "non_numeric"}
\* a text frame that is no JSON document
BadJson == <<"bad_json">>
\* the frames a venue sends: one event or, on the all-market stream, a list
VenueFrames(kind) ==
    {BadJson} \cup {<<a>> : a \in PayloadKinds}
        \cup (IF kind = "_binance_loop"
              THEN {<<a, b>> : a \in PayloadKinds, b \in PayloadKinds}
              ELSE {})
ValidIn(f) == Cardinality({i \in 1..Len(f) : f[i] = "valid"})

\* what the consumer's code does with one event
EventOutcome(kind, ev) ==
    IF kind = "_binance_loop"
    THEN CASE ev = "valid" -> "record"
           \* no "o" object: if not order: continue
           [] ev = "unexpected" -> "skip"
           \* no "p" / "q": float(None or 0) = 0, value 0 < min_value_usd
           [] ev = "missing" -> "skip"
           \* float(order.get("p") or 0) raises ValueError
           [] ev = "non_numeric" -> "raise"
    ELSE CASE ev = "valid" -> "record"
           \* msg.get("e") != "kline": continue
           [] ev = "unexpected" -> "skip"
           \* k = {}: to_utc_datetime(None) raises TypeError
           [] ev = "missing" -> "raise"
           \* float(k.get("o", 0)) raises ValueError
           [] ev = "non_numeric" -> "raise"

\* websockets.connect(...) / create_kline_stream(...): the consumer starts
PayloadOpen(kind) ==
    /\ xpc = "idle"
    /\ xKind' = kind
    /\ xpc' = "listening"
    /\ UNCHANGED <<xRest, xSeen, xValid, xOut, xTorn, notPayload>>

\* async for raw in ws: json.loads(raw); a JSONDecodeError is passed over
FrameReceived(f) ==
    /\ xpc = "listening"
    /\ xRest = <<>>
    /\ xSeen < MaxFrames
    /\ f \in VenueFrames(xKind)
    /\ xSeen' = xSeen + 1
    /\ xRest' = IF f = BadJson THEN <<>> ELSE f
    /\ xValid' = xValid + ValidIn(f)
    /\ UNCHANGED <<xKind, xpc, xOut, xTorn, notPayload>>

\* the body of the loop over the events of the frame.  An exception of the
\* body leaves "async with": the aggregator loop closes its connection and
\* sleeps 5 s, the connector's generator ends with the exception.
EventHandled ==
    /\ xpc = "listening"
    /\ xRest # <<>>
    /\ LET out == EventOutcome(xKind, Head(xRest)) IN
         /\ xOut' = IF out = "record" THEN xOut + 1 ELSE xOut
         /\ xRest' = IF out = "raise" THEN <<>> ELSE Tail(xRest)
         /\ xTorn' = (xTorn \/ out = "raise")
         /\ xpc' = IF out # "raise" THEN xpc
                   ELSE IF xKind = "_binance_loop" THEN "sleep5" ELSE "ended"
    /\ UNCHANGED <<xKind, xSeen, xValid, notPayload>>

\* await asyncio.sleep(5) is over: the loop connects again
PayloadSleepDone ==
    /\ xpc = "sleep5"
    /\ xpc' = "listening"
    /\ UNCHANGED <<xKind, xRest, xSeen, xValid, xOut, xTorn, notPayload>>

InitPayload ==
    /\ xKind = "_binance_loop"
    /\ xpc = "idle"
    /\ xRest = <<>>
    /\ xSeen = 0
    /\ xValid = 0
    /\ xOut = 0
    /\ xTorn = FALSE

NextPayload ==
    \/ \E kind \in PayloadConsumers : PayloadOpen(kind)
    \/ \E kind \in PayloadConsumers : \E f \in VenueFrames(kind) : FrameReceived(f)
    \/ EventHandled
    \/ PayloadSleepDone

\* C31: a malformed or unexpected payload is passed over: no payload makes
\* the consumer leave its upstream connection or end, and once a frame is
\* processed every valid event received so far has produced its record
C31_MalformedPayloadSkipped ==
    /\ ~xTorn
    /\ xRest = <<>> => xOut = xValid

\* ------------------------------------------------------------------ start() and stop() interleaved
\* number of start() calls that create tasks
MaxStarts == 3
Aggregators == {"liq", "lt"}
\* the loops start() creates a task for (one configured symbol)
LoopsOf(svc) ==
    IF svc = "liq" THEN {"_binance_loop", "_okx_loop", "_bybit_loop"}
    ELSE {"_binance_symbol_loop", "_bybit_loop", "_hyperliquid_loop"}
\* a task is named by the start() call that created it and by its loop
ChildTasks == (1..MaxStarts) \X (LoopsOf("liq") \cup LoopsOf("lt"))
Created(g) == {<<g, l>> : l \in LoopsOf(nKind)}
LiveTasks == {t \in ChildTasks : nPos[t] = "live"}

\* start(): returns at once when _running is set; otherwise sets it and
\* creates one task per loop.  AllLiquidationsService binds self._tasks to a
\* new list, AllLargeTradesService appends to the list it has.  There is no
\* await in start(), so the call is one step.
ServiceStart(svc) ==
    /\ nGen = 0 \/ svc = nKind
    /\ ~nRunning
    /\ nGen < MaxStarts
    /\ nKind' = svc
    /\ nRunning' = TRUE
    /\ nGen' = nGen + 1
    /\ LET new == {<<nGen + 1, l>> : l \in LoopsOf(svc)} IN
         /\ nTasks' = IF svc = "liq" THEN new ELSE nTasks \cup new
         /\ nPos' = [t \in ChildTasks |-> IF t \in new THEN "live" ELSE nPos[t]]
    /\ UNCHANGED <<nStops, notRestart>>

\* stop() up to its await: returns at once when _running is clear;
\* otherwise clears it, cancels every task of self._tasks and waits for
\* them with gather(*self._tasks), whose arguments are taken now
ServiceStop ==
    /\ nRunning
    /\ nRunning' = FALSE
    /\ nPos' = [t \in ChildTasks |->
                  IF t \in nTasks /\ nPos[t] = "live" THEN "cancelling" ELSE nPos[t]]
    /\ nStops' = nStops \cup {nTasks}
    /\ UNCHANGED <<nKind, nGen, nTasks, notRestart>>

\* a cancelled task is resumed with CancelledError and ends
ChildCancelled(t) ==
    /\ nPos[t] = "cancelling"
    /\ nPos' = [nPos EXCEPT ![t] = "ended"]
    /\ UNCHANGED <<nKind, nRunning, nGen, nTasks, nStops, notRestart>>

\* a task that was not cancelled: after an exception and its 5 s sleep the
\* loop tests "while self._running.is_set()" and returns when it is clear
ChildLoopExit(t) ==
    /\ nPos[t] = "live"
    /\ ~nRunning
    /\ nPos' = [nPos EXCEPT ![t] = "ended"]
    /\ UNCHANGED <<nKind, nRunning, nGen, nTasks, nStops, notRestart>>

\* stop() after its await: gather has returned, self._tasks.clear() empties
\* the list self._tasks names at this moment
ServiceStopDone(awaited) ==
    /\ awaited \in nStops
    /\ \A t \in awaited : nPos[t] = "ended"
    /\ nStops' = nStops \ {awaited}
    /\ nTasks' = {}
    /\ UNCHANGED <<nKind, nRunning, nGen, nPos, notRestart>>

InitRestart ==
    /\ nKind = "liq"
    /\ nRunning = FALSE
    /\ nGen = 0
    /\ nTasks = {}
    /\ nPos = [t \in ChildTasks |-> "none"]
    /\ nStops = {}

NextRestart ==
    \/ \E svc \in Aggregators : ServiceStart(svc)
    \/ ServiceStop
    \/ \E t \in ChildTasks : ChildCancelled(t)
    \/ \E t \in ChildTasks : ChildLoopExit(t)
    \/ \E awaited \in nStops : ServiceStopDone(awaited)

\* C33: for any interleaving of start() and stop() calls on an aggregation
\* service every live child task is tracked by the service, so that a later
\* stop() cancels it, and no loop has more than one live task
C33_LiveTasksTracked ==
    /\ LiveTasks \subseteq nTasks
    /\ \A l \in LoopsOf(nKind) :
          Cardinality({t \in LiveTasks : t[2] = l}) <= 1

\* ------------------------------------------------------------------ application lifespan
\* the order in which lifespan starts and stops the background services
LifespanOrder == <<"liq", "oi", "lt">>
Before(svc) ==
    {LifespanOrder[i] : i \in {j \in 1..3 : \E k \in (j + 1)..3 : LifespanOrder[k] = svc}}
\* ExchangeManager.exchanges, in the order of the dict
ExchangeOrder == <<"binance", "hyperliquid", "bybit">>

\* "except Exception as svc_stop_err": the shutdown code goes on after a
\* stop() that returned; a CancelledError leaving stop() is no Exception and
\* leaves the handler, the outer handler and lifespan itself
GoesOn(out) == out = "returned"

StartupDone == \A t \in Tasks : tpc[t] # "none"

\* startup: the three start() calls, one after the other
LifespanStart(svc) ==
    /\ \A s \in Before(svc) : svcRunning[s]
    /\ \A s \in Services : stopState[s] = "none"
    /\ Start(svc)

\* shutdown: the stop() call of a service, made once the stop() calls before
\* it have ended and the shutdown code has gone on
LifespanStop(svc) ==
    /\ StartupDone
    /\ \A s \in Before(svc) : GoesOn(stopState[s])
    /\ Stop(svc)

\* shutdown: the stop() call resumes after its await
LifespanStopDone(svc) ==
    /\ StartupDone
    /\ StopDone(svc)

\* manager.shutdown_all(): exchange.shutdown() of the next connector; an
\* exception is logged and the loop goes on
ExchangeShutdown(ex, raises) ==
    /\ \A s \in Services : GoesOn(stopState[s])
    /\ Len(dShut) < Len(ExchangeOrder)
    /\ ex = ExchangeOrder[Len(dShut) + 1]
    /\ dShut' = Append(dShut, [exchange |-> ex, raised |-> raises])
    /\ UNCHANGED notShutdown

InitShutdown == dShut = <<>>

NextShutdown ==
    \/ \E svc \in Services : LifespanStart(svc)
    \/ \E t \in Tasks : TaskStart(t)
    \/ \E t \in Tasks : VenueError(t)
    \/ \E t \in Tasks : SleepDone(t)
    \/ \E t \in Tasks, empty \in BOOLEAN : BybitFetched(t, empty)
    \/ \E t \in Tasks : MonitorStarted(t)
    \/ \E t \in Tasks : CycleDone(t)
    \/ \E t \in Tasks : TaskCancelled(t)
    \/ \E t \in Tasks : CancelSleepDone(t)
    \/ \E svc \in Services : LifespanStop(svc)
    \/ \E svc \in Services : LifespanStopDone(svc)
    \/ \E ex \in Exchanges, raises \in BOOLEAN : ExchangeShutdown(ex, raises)

\* the shutdown code has ended: shutdown_all has been through every
\* connector, or a stop() ended in a way the shutdown code does not go on from
LifespanEnded ==
    \/ Len(dShut) = Len(ExchangeOrder)
    \/ \E svc \in Services :
          stopState[svc] \notin {"none", "awaiting"} /\ ~GoesOn(stopState[svc])

\* C34: application shutdown calls stop() on all three background services
\* and then shuts down every exchange connector, also when stopping one of
\* the services fails or raises
C34_ShutdownReachesEveryStep ==
    LifespanEnded =>
        /\ \A svc \in Services : stopState[svc] # "none"
        /\ {dShut[i].exchange : i \in 1..Len(dShut)} = Exchanges

\* ------------------------------------------------------------------ firehose clients
\* the client of a session goes away.  The handler never reads from the
\* websocket, so nothing tells it: it learns of it when a send fails.
FirehoseClientGone(s) ==
    /\ spc[s] \in {"waiting", "sending"}
    /\ gClient[s] = "connected"
    /\ gClient' = [gClient EXCEPT ![s] = "gone"]
    /\ UNCHANGED notFirehose

\* await websocket.send_json(event) to a connected client
FirehoseSendOk(s) ==
    /\ gClient[s] = "connected"
    /\ SendOk(s)

\* await websocket.send_json(event) to a client that is gone raises; the
\* handler breaks out of its loop and unsubscribes in its finally block
FirehoseSendFail(s) ==
    /\ gClient[s] = "gone"
    /\ SessionEnd(s, "send_error")

\* the server cancels the handler
FirehoseCancelled(s) ==
    /\ gClient[s] = "connected"
    /\ SessionEnd(s, "cancelled")

InitFirehose == gClient = [s \in Sessions |-> "connected"]

NextFirehose ==
    \/ \E t \in Topics, a \in Attrs : Publish(t, a)
    \/ \E s \in Sessions, t \in Topics, f \in Filters : Accept(s, t, f)
    \/ \E s \in Sessions : AcceptFail(s)
    \/ \E s \in Sessions : Subscribe(s)
    \/ \E s \in Sessions : Get(s)
    \/ \E s \in Sessions : FirehoseSendOk(s)
    \/ \E s \in Sessions : FirehoseSendFail(s)
    \/ \E s \in Sessions : FirehoseCancelled(s)
    \/ \E s \in Sessions : FirehoseClientGone(s)

\* the event loop resumes a handler whose await can complete: a queue.get()
\* on a queue that holds an event, and a send_json.  Publishing, connecting,
\* disconnecting and cancelling are up to the environment.
FairFirehose ==
    \A s \in Sessions :
        /\ WF_vars(Get(s))
        /\ WF_vars(FirehoseSendOk(s))
        /\ WF_vars(FirehoseSendFail(s))

\* C35: after a firehose client disconnects its handler eventually
\* unsubscribes the queue and ends, also when no later event of the topic
\* passes the connection's filter or no later event is published
C35_DisconnectEndsHandler ==
    \A s \in Sessions : (gClient[s] = "gone") ~> (spc[s] = "ended")

\* ------------------------------------------------------------------ symbol cap of a mid-session subscribe
\* the valid symbols a connection may be subscribed to already
ActiveSymbols == {"BTCUSDT", "ETHUSDT", "SOLUSDT", "XRPUSDT"}
SubscribedSets == {S \in SUBSET ActiveSymbols : Cardinality(S) <= max_symbols_per_connection}

\* new_count = len(subscribed_symbols) + len(symbols)
\* if new_count > settings.max_symbols_per_connection: RATE_LIMIT
TooManySymbols(subscribed, symbols) ==
    Cardinality(subscribed) + Len(symbols) > max_symbols_per_connection

\* the subscriptions the connection would have if the message were accepted
WouldSubscribe(subscribed, symbols) ==
    subscribed \cup {Upper(symbols[i]) :
                        i \in {j \in 1..Len(symbols) : EndsWithUSDT(Upper(symbols[j]))}}

\* handle_client_messages, action "subscribe": the count check
MidSessionSubscribe(subscribed, symbols) ==
    /\ kVerdict = "none"
    /\ kSub' = subscribed
    /\ kMsg' = symbols
    /\ kNow' = subscribed
    /\ IF TooManySymbols(subscribed, symbols)
       THEN kVerdict' = "RATE_LIMIT" /\ kTodo' = <<>>
       ELSE kVerdict' = "accepted" /\ kTodo' = symbols
    /\ UNCHANGED notCap

\* "for symbol in symbols": an entry that does not end in USDT is answered
\* with INVALID_SYMBOL, one that is subscribed already is passed over, any
\* other gets a forwarder task and joins subscribed_symbols
MidSessionSubscribeSymbol ==
    /\ kVerdict = "accepted"
    /\ kTodo # <<>>
    /\ LET symbol_upper == Upper(Head(kTodo)) IN
         kNow' = IF EndsWithUSDT(symbol_upper) THEN kNow \cup {symbol_upper} ELSE kNow
    /\ kTodo' = Tail(kTodo)
    /\ UNCHANGED <<kSub, kMsg, kVerdict, notCap>>

InitCap ==
    /\ kSub = {}
    /\ kMsg = <<>>
    /\ kTodo = <<>>
    /\ kNow = {}
    /\ kVerdict = "none"

NextCap ==
    \/ \E subscribed \in SubscribedSets, symbols \in SymbolLists :
          MidSessionSubscribe(subscribed, symbols)
    \/ MidSessionSubscribeSymbol

WindowCap == 6
\* "limit=50": observations one fetch returns (half a window, scaled down)
FetchLimit == 3
\* observations the venue produces for the pair
MaxObs == 4
\* _compute_z: "if len(values) < 5: return 0.0"
MinWindow == 5

TIMEFRAMES == {"5m", "15m", "1h"}
\* Z_THRESHOLDS, in thousandths
Z_THRESHOLDS(tf) ==
    CASE tf = "5m" -> 3000
      [] tf = "15m" -> 2500
      [] tf = "1h" -> 2000
\* values of (values[-1] - mean) / stdev, in thousandths (0: stdev is 0)
ZQuotients == {0, 1996, 2000, 2496, 2996, 3000, 3504}
NoSpike == [timeframe |-> "none", z_oi |-> 0, z_vol |-> 0, confirmed |-> FALSE]

\* round(z, 2) on a value in thousandths
Round2(zm) == ((zm + 5) \div 10) * 10

\* _compute_z(values); q is the quotient the statistics module computes
compute_z(values, q) == IF Len(values) < MinWindow THEN 0 ELSE q

\* values[-n:]
LastN(s, n) == IF Len(s) <= n THEN s ELSE SubSeq(s, Len(s) - n + 1, Len(s))

\* _fetch_open_interest(sym, tf, limit=50): the venue's latest observations
FetchLatest(n) ==
    LET k == Min(FetchLimit, n) IN [i \in 1..k |-> n - k + i]

\* the event of one (symbol, timeframe) evaluation, or NoSpike
SpikeEvent(tf, z_oi, z_vol) ==
    LET thr == Z_THRESHOLDS(tf) IN
    IF z_oi >= thr \/ z_vol >= thr
    THEN [timeframe |-> tf, z_oi |-> Round2(z_oi), z_vol |-> Round2(z_vol),
          confirmed |-> (z_oi >= thr /\ z_vol >= thr)]
    ELSE NoSpike

\* the exchangeInfo endpoint fails for a while during startup
ExchangeInfoOutage ==
    /\ opc = "startup" /\ ~oDown
    /\ oDown' = TRUE
    /\ UNCHANGED <<opc, oFetchFailed, oSymbols, oTf, oVenue, oWin, oEvent, notMonitor>>

ExchangeInfoRecovers ==
    /\ oDown
    /\ oDown' = FALSE
    /\ UNCHANGED <<opc, oFetchFailed, oSymbols, oTf, oVenue, oWin, oEvent, notMonitor>>

\* the venue records a new observation for the pair
VenueObservation ==
    /\ oVenue < MaxObs
    /\ oVenue' = oVenue + 1
    /\ UNCHANGED <<opc, oDown, oFetchFailed, oSymbols, oTf, oWin, oEvent, notMonitor>>

\* _run before its loop: symbols = await self._fetch_symbols(), which
\* returns [] on any failure; the store is built from that list
MonitorFetchSymbols(tf) ==
    /\ opc = "startup"
    /\ oSymbols' = IF oDown THEN {} ELSE {"BTCUSDT"}
    /\ oFetchFailed' = oDown
    /\ oTf' = tf
    /\ opc' = "cycle"
    /\ UNCHANGED <<oDown, oVenue, oWin, oEvent, notMonitor>>

\* one pass of "for sym in symbols: for tf in TIMEFRAMES" and the sleep(0.2).
\* The window shown is the oi window; the vol window is extended by the same
\* two statements.
MonitorCycle(fetched, aboveMin, q_oi, q_vol) ==
    /\ opc = "cycle"
    /\ opc' = "cycle_sleep"
    /\ IF oSymbols = {} \/ ~fetched \/ oVenue = 0
       THEN UNCHANGED <<oWin, oEvent>>
       ELSE LET win == LastN(oWin \o FetchLatest(oVenue), WindowCap)
                ev == SpikeEvent(oTf, compute_z(win, q_oi), compute_z(win, q_vol)) IN
            /\ oWin' = win
            /\ oEvent' = IF aboveMin /\ ev # NoSpike THEN ev ELSE oEvent
    /\ UNCHANGED <<oDown, oFetchFailed, oSymbols, oTf, oVenue, notMonitor>>

\* the finally block's sleep(cycle_sleep) is over
MonitorSleepDone ==
    /\ opc = "cycle_sleep"
    /\ opc' = "cycle"
    /\ UNCHANGED <<oDown, oFetchFailed, oSymbols, oTf, oVenue, oWin, oEvent, notMonitor>>

InitMonitor ==
    /\ opc = "startup"
    /\ oDown = FALSE
    /\ oFetchFailed = FALSE
    /\ oSymbols = {}
    /\ oTf = "5m"
    /\ oVenue = 0
    /\ oWin = <<>>
    /\ oEvent = NoSpike

MonitorStep ==
    \/ \E tf \in TIMEFRAMES : MonitorFetchSymbols(tf)
    \/ \E fetched \in BOOLEAN, aboveMin \in BOOLEAN,
          q_oi \in ZQuotients, q_vol \in ZQuotients :
          MonitorCycle(fetched, aboveMin, q_oi, q_vol)
    \/ MonitorSleepDone

NextMonitor ==
    \/ ExchangeInfoOutage
    \/ ExchangeInfoRecovers
    \/ VenueObservation
    \/ MonitorStep

\* the monitor task keeps running (its awaits complete) and the outage of
\* the endpoint is transient
FairMonitor ==
    /\ WF_vars(MonitorStep)
    /\ WF_vars(ExchangeInfoRecovers)

\* C37: a rolling window holds at most WindowCap values and never holds the
\* same observation twice: an observation a later fetch returns again is
\* not appended a second time
C37_WindowHoldsNewObservations ==
    /\ Len(oWin) <= WindowCap
    /\ \A i, j \in 1..Len(oWin) : oWin[i] = oWin[j] => i = j

\* C38: in every published oi_spike event, confirmed is true exactly when
\* the event's z_oi and the event's z_vol are both at or above the z
\* threshold of the event's timeframe
C38_ConfirmedIffBothAtThreshold ==
    oEvent # NoSpike =>
        (oEvent.confirmed <=>
            (/\ oEvent.z_oi >= Z_THRESHOLDS(oEvent.timeframe)
             /\ oEvent.z_vol >= Z_THRESHOLDS(oEvent.timeframe)))

\* C39: a failure of the symbol-listing request at startup is retried: the
\* monitor eventually has a symbol list to track
C39_SymbolFetchRetried == oFetchFailed ~> (oSymbols # {})

\* ------------------------------------------------------------------ specifications
Init ==
    /\ InitBus /\ InitSvc /\ InitWs /\ InitMux /\ InitStream /\ InitTrades
    /\ InitHttp /\ InitMappers /\ InitFeed /\ InitVenues /\ InitPayload /\ InitRestart /\ InitShutdown /\ InitFirehose /\ InitCap /\ InitMonitor

SpecBus == Init /\ [][NextBus]_vars

SpecSvc == Init /\ [][NextSvc]_vars

SpecWs == Init /\ [][NextWs]_vars

SpecMux == Init /\ [][NextMux]_vars

SpecStream == Init /\ [][NextStream]_vars

SpecTrades == Init /\ [][NextTrades]_vars

SpecHttp == Init /\ [][NextHttp]_vars

\* the mappers are pure functions: the argument is drawn in the initial state
InitMappersSpec ==
    /\ InitBus /\ InitSvc /\ InitWs /\ InitMux /\ InitStream /\ InitTrades
    /\ InitHttp /\ InitMappersDrawn /\ InitFeed /\ InitVenues /\ InitPayload /\ InitRestart /\ InitShutdown /\ InitFirehose /\ InitCap /\ InitMonitor

SpecMappers == InitMappersSpec /\ [][NextMappers]_vars

SpecFeed == Init /\ [][NextFeed]_vars

SpecVenues == Init /\ [][NextVenues]_vars

SpecPayload == Init /\ [][NextPayload]_vars

SpecRestart == Init /\ [][NextRestart]_vars

SpecShutdown == Init /\ [][NextShutdown]_vars

SpecFirehose == Init /\ [][NextFirehose]_vars /\ FairFirehose

SpecCap == Init /\ [][NextCap]_vars

SpecMonitor == Init /\ [][NextMonitor]_vars /\ FairMonitor

====
